---- MODULE Spec2Model ----
(***************************************************************************)
(* The AI analysis engine of packages/ai-analysis: sentiment scoring,      *)
(* code-quality scoring, anomaly detection, recommendation and alert       *)
(* generation.  Every engine operation is one action: it draws its         *)
(* arguments (and the answers of the two external models, the text         *)
(* classifier and the isolation forest) from bounded sets, and leaves the  *)
(* operation's name, arguments and result in the state.                    *)
(*                                                                         *)
(* Floats are modelled as exact rationals [n, d] with d > 0.  Text is a    *)
(* TLA+ string, i.e. a sequence of characters.                             *)
(***************************************************************************)
EXTENDS Integers, Sequences, FiniteSets, TLC

VARIABLES
    op,      \* the engine operation that ran last ("idle" before the first)
    arg,     \* its arguments
    res,     \* its outcome: [status |-> "ok", value |-> v] or [status |-> "raised"]
    calls,   \* what that operation called, in order: the texts handed to the
             \* text classifier, or the engine operations a composite one ran
    engine,  \* the HTTP app's engine: "available", or "none" if its construction failed
    model,   \* the isolation forest held by the engine's one AnomalyDetector:
             \* <<>> before its first fit, else <<b>> for the batch b it was last fitted on
    threads  \* the detect_anomalies calls of the request threads that share the
             \* engine: where each is in the call, its batch and its result

vars == <<op, arg, res, calls, engine, model, threads>>

----------------------------------------------------------------------------
(* Rational arithmetic (the code's floats).                                *)

Rat(n, d) == [n |-> n, d |-> d]
RInt(k) == Rat(k, 1)
RLt(a, b) == a.n * b.d < b.n * a.d
RLe(a, b) == a.n * b.d <= b.n * a.d
REq(a, b) == a.n * b.d = b.n * a.d
RNeg(a) == Rat(0 - a.n, a.d)
RAdd(a, b) == Rat(a.n * b.d + b.n * a.d, a.d * b.d)
RSub(a, b) == RAdd(a, RNeg(b))
RMulInt(a, k) == Rat(a.n * k, a.d)
RDivInt(a, k) == Rat(a.n, a.d * k)
RMax(a, b) == IF RLt(a, b) THEN b ELSE a
RMin(a, b) == IF RLt(b, a) THEN b ELSE a

RECURSIVE RSum(_)
RSum(s) == IF Len(s) = 0 THEN RInt(0) ELSE RAdd(s[1], RSum(Tail(s)))

(* All sequences over S of length at most n. *)
SeqUpTo(S, n) == UNION {[1..k -> S] : k \in 0..n}

Ok(v) == [status |-> "ok", value |-> v]
Raised == [status |-> "raised"]

----------------------------------------------------------------------------
(* Text helpers: str.strip(), slicing, substring test.                      *)

Whitespace == {" ", "\n", "\t", "\r"}

CharAt(s, i) == SubSeq(s, i, i)

IsBlank(s) == \A i \in 1..Len(s) : CharAt(s, i) \in Whitespace

Prefix(s, k) == SubSeq(s, 1, IF Len(s) < k THEN Len(s) ELSE k)

Contains(s, needle) ==
    \E i \in 1..(Len(s) - Len(needle) + 1) : SubSeq(s, i, i + Len(needle) - 1) = needle

StartsWith(s, p) == Len(s) >= Len(p) /\ SubSeq(s, 1, Len(p)) = p

----------------------------------------------------------------------------
(* Number formatting: str(int) and the f-string formats {x:.1f}, {x:.2f}.   *)
(* The decimal is rounded from the exact rational, ties to even.            *)

RECURSIVE Pow10(_)
Pow10(k) == IF k = 0 THEN 1 ELSE 10 * Pow10(k - 1)

RECURSIVE ZeroPad(_, _)
ZeroPad(str, width) == IF Len(str) >= width THEN str ELSE ZeroPad("0" \o str, width)

RoundHalfEven(num, den) ==
    LET q == num \div den
        r == num % den
    IN IF 2 * r > den \/ (2 * r = den /\ q % 2 = 1) THEN q + 1 ELSE q

Fixed(x, k) ==
    LET mag == IF x.n < 0 THEN 0 - x.n ELSE x.n
        scaled == RoundHalfEven(mag * Pow10(k), x.d)
    IN (IF x.n < 0 THEN "-" ELSE "")
       \o ToString(scaled \div Pow10(k)) \o "." \o ZeroPad(ToString(scaled % Pow10(k)), k)

(* sum of a sequence of integers *)
RECURSIVE SumInts(_)
SumInts(s) == IF Len(s) = 0 THEN 0 ELSE s[1] + SumInts(Tail(s))

(* list.extend / concatenation of a sequence of sequences *)
RECURSIVE Flatten(_)
Flatten(ss) ==
    IF Len(ss) = 0 THEN <<>>
    ELSE IF Len(ss) = 1 THEN ss[1]
    ELSE LET half == Len(ss) \div 2
         IN Flatten(SubSeq(ss, 1, half)) \o Flatten(SubSeq(ss, half + 1, Len(ss)))

----------------------------------------------------------------------------
(* SentimentAnalyzer                                                        *)

MaxInput == 512

(* What the classifier pipeline answers for one text: a raw label and a    *)
(* confidence, or an exception.                                             *)
RawLabels == {"POSITIVE", "NEGATIVE", "NEUTRAL"}
Confidences == {Rat(1, 5), Rat(21, 100), Rat(9, 10), Rat(6, 5)}
Answers == [kind : {"answer"}, label : RawLabels, score : Confidences]
Failure == [kind |-> "raise", label |-> "", score |-> RInt(0)]
NotAsked == [kind |-> "unused", label |-> "", score |-> RInt(0)]
Outcomes == Answers \cup {Failure}

Lower(label) ==
    CASE label = "POSITIVE" -> "positive"
      [] label = "NEGATIVE" -> "negative"
      [] label = "NEUTRAL" -> "neutral"
      [] OTHER -> label

SentimentScore(s, l, c) == [score |-> s, label |-> l, confidence |-> c]

(* LabelOf with the thresholds taken inclusively. *)
LabelOf_inclusive(score) ==
    IF RLe(Rat(1, 5), score) THEN "positive"
    ELSE IF RLe(score, Rat(-1, 5)) THEN "negative"
    ELSE "neutral"

LabelOf(score) ==
    IF RLt(Rat(1, 5), score) THEN "positive"
    ELSE IF RLt(score, Rat(-1, 5)) THEN "negative"
    ELSE "neutral"

ScoreOf(label, confidence) ==
    IF label = "positive" THEN confidence
    ELSE IF label = "negative" THEN RNeg(confidence)
    ELSE RInt(0)

ClassifierInput(text) == Prefix(text, MaxInput)

(* Asked without the whitespace test. *)
Asked_emptyOnly(text) == text # ""

(* The classifier is reached only for a text that is not blank. *)
Asked(text) == ~ (text = "" \/ IsBlank(text))

(* OnClassifierError without the except clause. *)
OnClassifierError_propagate == Raised

OnClassifierError == Ok(SentimentScore(RInt(0), "neutral", RInt(0)))

analyze_sentiment(text, out) ==
    IF ~ Asked(text)
    THEN Ok(SentimentScore(RInt(0), "neutral", RInt(1)))
    ELSE IF out.kind = "raise"
    THEN OnClassifierError
    ELSE LET label == Lower(out.label)
             confidence == out.score
             score == ScoreOf(label, confidence)
         IN Ok(SentimentScore(score, LabelOf(score), confidence))

(* analyze_comments that skips the blank comments. *)
analyze_comments_skipBlank(comments, oracle) ==
    LET keep == {i \in 1..Len(comments) : Asked(comments[i])}
        idx == [k \in 1..Cardinality(keep) |->
                   CHOOSE i \in keep : Cardinality({j \in keep : j < i}) = k - 1]
    IN Ok([k \in 1..Cardinality(keep) |-> analyze_sentiment(comments[idx[k]], oracle[idx[k]]).value])

analyze_comments(comments, oracle) ==
    LET rs == [i \in 1..Len(comments) |-> analyze_sentiment(comments[i], oracle[i])]
    IN IF \E i \in 1..Len(comments) : rs[i].status = "raised"
       THEN Raised
       ELSE Ok([i \in 1..Len(comments) |-> rs[i].value])

get_average_sentiment(comments, oracle) ==
    IF Len(comments) = 0
    THEN Ok(SentimentScore(RInt(0), "neutral", RInt(1)))
    ELSE LET r == analyze_comments(comments, oracle)
         IN IF r.status = "raised" THEN Raised
            ELSE LET scores == r.value
                     n == Len(scores)
                     avg_score == RDivInt(RSum([i \in 1..n |-> scores[i].score]), n)
                     avg_confidence == RDivInt(RSum([i \in 1..n |-> scores[i].confidence]), n)
                 IN Ok(SentimentScore(avg_score, LabelOf(avg_score), avg_confidence))

(* The classifier calls one run over `comments` makes, in order. *)
ClassifierCalls(comments) ==
    LET asked == SelectSeq(comments, Asked)
    IN [i \in 1..Len(asked) |-> ClassifierInput(asked[i])]

MaxComments == 2
Texts == {"", " \n", "LGTM"}
CommentLists == SeqUpTo(Texts, MaxComments)

(* One classifier outcome per comment; a blank comment gets none. *)
Oracles(comments) ==
    {o \in [1..Len(comments) -> Outcomes \cup {NotAsked}] :
        \A i \in 1..Len(comments) : (o[i] = NotAsked) <=> ~ Asked(comments[i])}

AnalyzeSentiment ==
    /\ op = "idle"
    /\ UNCHANGED <<engine, model, threads>>
    /\ \E text \in Texts : \E o \in Oracles(<<text>>) :
        /\ op' = "analyze_sentiment"
        /\ arg' = [comments |-> <<text>>, oracle |-> o]
        /\ res' = analyze_sentiment(text, o[1])
        /\ calls' = ClassifierCalls(<<text>>)

AnalyzeComments ==
    /\ op = "idle"
    /\ UNCHANGED <<engine, model, threads>>
    /\ \E comments \in CommentLists : \E o \in Oracles(comments) :
        /\ op' = "analyze_comments"
        /\ arg' = [comments |-> comments, oracle |-> o]
        /\ res' = analyze_comments(comments, o)
        /\ calls' = ClassifierCalls(comments)

GetAverageSentiment ==
    /\ op = "idle"
    /\ UNCHANGED <<engine, model, threads>>
    /\ \E comments \in CommentLists : \E o \in Oracles(comments) :
        /\ op' = "get_average_sentiment"
        /\ arg' = [comments |-> comments, oracle |-> o]
        /\ res' = get_average_sentiment(comments, o)
        /\ calls' = ClassifierCalls(comments)

----------------------------------------------------------------------------
(* Properties of the SentimentAnalyzer.                                     *)

InContract(out) == out.kind = "raise" \/ (RLe(RInt(0), out.score) /\ RLe(out.score, RInt(1)))

InRange(x) ==
    /\ RLe(RInt(-1), x.score) /\ RLe(x.score, RInt(1))
    /\ x.label \in {"positive", "neutral", "negative"}
    /\ RLe(RInt(0), x.confidence) /\ RLe(x.confidence, RInt(1))

(* C2: analyze_comments returns one score per comment, in input order (a   *)
(* blank comment's element has confidence 1, a failed comment's has        *)
(* confidence 0, an answered comment's carries the answer's confidence),   *)
(* and an element whose classifier outcome is a failure or has confidence  *)
(* in [0,1] has score in [-1,1], a valid label and confidence in [0,1].    *)
C2_OnePerComment ==
    op = "analyze_comments" =>
        /\ res.status = "ok"
        /\ Len(res.value) = Len(arg.comments)
        /\ \A i \in 1..Len(arg.comments) :
            /\ arg.oracle[i].kind = "unused" => REq(res.value[i].confidence, RInt(1))
            /\ arg.oracle[i].kind = "raise" => REq(res.value[i].confidence, RInt(0))
            /\ arg.oracle[i].kind = "answer" => res.value[i].confidence = arg.oracle[i].score
            /\ InContract(arg.oracle[i]) => InRange(res.value[i])

C2_Witness ==
    /\ op = "analyze_comments"
    /\ Len(arg.comments) = 2
    /\ arg.comments[1] = " \n"
    /\ arg.oracle[2].kind = "answer"
    /\ arg.oracle[2].label = "NEGATIVE"
    /\ res.status = "ok"
    /\ res.value[2].label = "negative"

(* C3: analyze_sentiment on an empty or whitespace-only text returns       *)
(* exactly score 0, label neutral, confidence 1, and the classifier is not *)
(* called.                                                                  *)
C3_BlankIsNeutral ==
    (op = "analyze_sentiment" /\ IsBlank(arg.comments[1])) =>
        /\ res.status = "ok"
        /\ REq(res.value.score, RInt(0))
        /\ res.value.label = "neutral"
        /\ REq(res.value.confidence, RInt(1))
        /\ calls = <<>>

C3_Witness ==
    /\ op = "analyze_sentiment"
    /\ arg.comments[1] # ""
    /\ IsBlank(arg.comments[1])
    /\ res.status = "ok"

NeutralZero(x) ==
    REq(x.score, RInt(0)) /\ x.label = "neutral" /\ REq(x.confidence, RInt(0))

(* C4: a classifier failure on a non-blank text gives score 0, label       *)
(* neutral, confidence 0 and no exception; in analyze_comments the failed  *)
(* comment's element is that value and every other element is what         *)
(* analyze_sentiment gives for that comment alone, at the same position.   *)
C4_FailureIsContained ==
    /\ (op = "analyze_sentiment" /\ arg.oracle[1].kind = "raise") =>
            res.status = "ok" /\ NeutralZero(res.value)
    /\ op = "analyze_comments" =>
        /\ res.status = "ok"
        /\ Len(res.value) = Len(arg.comments)
        /\ \A i \in 1..Len(arg.comments) :
            IF arg.oracle[i].kind = "raise"
            THEN NeutralZero(res.value[i])
            ELSE /\ arg.oracle[i].kind = "unused" => REq(res.value[i].confidence, RInt(1))
                 /\ arg.oracle[i].kind = "answer" =>
                        /\ res.value[i].confidence = arg.oracle[i].score
                        /\ arg.oracle[i].label = "POSITIVE" => res.value[i].score = arg.oracle[i].score
                        /\ arg.oracle[i].label = "NEGATIVE" => res.value[i].score = RNeg(arg.oracle[i].score)

C4_Witness ==
    /\ op = "analyze_comments"
    /\ Len(arg.comments) = 2
    /\ arg.oracle[1].kind = "raise"
    /\ arg.oracle[2].kind = "answer"
    /\ res.status = "ok"
    /\ res.value[2].label = "positive"

(* C5: the label of every score returned by analyze_sentiment and          *)
(* get_average_sentiment is positive exactly when score > 0.2, negative    *)
(* exactly when score < -0.2 and neutral otherwise.                         *)
C5_LabelFromScore ==
    (op \in {"analyze_sentiment", "get_average_sentiment"} /\ res.status = "ok") =>
        /\ res.value.label = "positive" <=> RLt(Rat(1, 5), res.value.score)
        /\ res.value.label = "negative" <=> RLt(res.value.score, Rat(-1, 5))
        /\ res.value.label = "neutral" <=>
                (RLe(Rat(-1, 5), res.value.score) /\ RLe(res.value.score, Rat(1, 5)))

(* The raw label is POSITIVE and the final label is neutral. *)
C5_Witness ==
    /\ op = "analyze_sentiment"
    /\ arg.oracle[1].kind = "answer"
    /\ arg.oracle[1].label = "POSITIVE"
    /\ res.status = "ok"
    /\ res.value.label = "neutral"

----------------------------------------------------------------------------
(* AlertGenerator.  An alert's id (a fresh uuid4) and createdAt (the clock) *)
(* are left out of the record: no operation reads them.                     *)

Alert(type, severity, message, relatedEntity) ==
    [type |-> type, severity |-> severity, message |-> message,
     relatedEntity |-> relatedEntity]

CodeQualityReport(commitHash, complexity, documentation, standards, overallScore, issues) ==
    [commitHash |-> commitHash, complexity |-> complexity,
     documentation |-> documentation, standards |-> standards,
     overallScore |-> overallScore, issues |-> issues]

IssueSeverity(issue) ==
    IF Contains(issue, "High code complexity") THEN "medium"
    ELSE IF Contains(issue, "Insufficient documentation") THEN "low"
    ELSE IF Contains(issue, "standards violations") THEN "low"
    ELSE "low"

IssueAlert(report, issue) ==
    Alert("quality_issue", IssueSeverity(issue),
          issue \o " in commit " \o report.commitHash, report.commitHash)

(* ScoreAlerts with the overall threshold applied to the complexity alert. *)
ScoreAlerts_sharedThreshold(report) ==
    (IF RLt(report.overallScore, RInt(40))
     THEN <<Alert("code_quality", "high", "Low code quality", report.commitHash)>>
     ELSE <<>>)
    \o (IF RLt(report.complexity, RInt(40))
        THEN <<Alert("high_complexity", "medium", "High code complexity", report.commitHash)>>
        ELSE <<>>)
    \o (IF RLt(report.documentation, RInt(30))
        THEN <<Alert("poor_documentation", "low", "Insufficient documentation", report.commitHash)>>
        ELSE <<>>)

ScoreAlerts(report) ==
    (IF RLt(report.overallScore, RInt(40))
     THEN <<Alert("code_quality", "high",
                  "Low code quality detected in commit " \o report.commitHash
                      \o ": score " \o Fixed(report.overallScore, 1) \o "/100",
                  report.commitHash)>>
     ELSE <<>>)
    \o (IF RLt(report.complexity, RInt(30))
        THEN <<Alert("high_complexity", "medium",
                     "High code complexity in commit " \o report.commitHash
                         \o ": complexity score " \o Fixed(report.complexity, 1) \o "/100",
                     report.commitHash)>>
        ELSE <<>>)
    \o (IF RLt(report.documentation, RInt(30))
        THEN <<Alert("poor_documentation", "low",
                     "Insufficient documentation in commit " \o report.commitHash
                         \o ": documentation score " \o Fixed(report.documentation, 1) \o "/100",
                     report.commitHash)>>
        ELSE <<>>)

generate_quality_alerts(report) ==
    ScoreAlerts(report)
    \o [i \in 1..Len(report.issues) |-> IssueAlert(report, report.issues[i])]

NegativeRatio(scores) ==
    Rat(Cardinality({i \in 1..Len(scores) : scores[i].label = "negative"}), Len(scores))

(* RatioAlert with `if` in place of `elif`. *)
RatioAlert_noElif(pr_number, ratio) ==
    (IF RLt(Rat(2, 5), ratio)
     THEN <<Alert("negative_sentiment", "high", "High negative sentiment", ToString(pr_number))>>
     ELSE <<>>)
    \o (IF RLt(Rat(1, 4), ratio)
        THEN <<Alert("negative_sentiment", "medium", "Elevated negative sentiment", ToString(pr_number))>>
        ELSE <<>>)

RatioAlert(pr_number, ratio) ==
    IF RLt(Rat(2, 5), ratio)
    THEN <<Alert("negative_sentiment", "high",
                 "High negative sentiment detected in PR #" \o ToString(pr_number) \o ": "
                     \o Fixed(RMulInt(ratio, 100), 1) \o "% of comments are negative",
                 ToString(pr_number))>>
    ELSE IF RLt(Rat(1, 4), ratio)
    THEN <<Alert("negative_sentiment", "medium",
                 "Elevated negative sentiment in PR #" \o ToString(pr_number) \o ": "
                     \o Fixed(RMulInt(ratio, 100), 1) \o "% of comments are negative",
                 ToString(pr_number))>>
    ELSE <<>>

(* VeryNegative that also asks for the label negative. *)
VeryNegative_labelled(score) ==
    /\ RLt(score.score, Rat(-7, 10))
    /\ RLt(Rat(4, 5), score.confidence)
    /\ score.label = "negative"

VeryNegative(score) == RLt(score.score, Rat(-7, 10)) /\ RLt(Rat(4, 5), score.confidence)

CommentAlert(pr_number, i, score) ==
    Alert("very_negative_comment", "medium",
          "Very negative comment detected in PR #" \o ToString(pr_number)
              \o " (comment " \o ToString(i) \o "): sentiment score " \o Fixed(score.score, 2),
          ToString(pr_number))

CommentAlerts(pr_number, scores) ==
    Flatten([i \in 1..Len(scores) |->
                IF VeryNegative(scores[i]) THEN <<CommentAlert(pr_number, i, scores[i])>>
                ELSE <<>>])

(* generate_sentiment_alerts without the alert on the negative ratio. *)
generate_sentiment_alerts_commentsOnly(pr_number, scores) ==
    IF Len(scores) = 0 THEN <<>> ELSE CommentAlerts(pr_number, scores)

generate_sentiment_alerts(pr_number, scores) ==
    IF Len(scores) = 0 THEN <<>>
    ELSE RatioAlert(pr_number, NegativeRatio(scores)) \o CommentAlerts(pr_number, scores)

(* generate_combined_alerts that runs the sentiment loop first. *)
generate_combined_alerts_sentimentFirst(quality_reports, pr_sentiments) ==
    Flatten([i \in 1..Len(pr_sentiments) |->
                generate_sentiment_alerts(pr_sentiments[i][1], pr_sentiments[i][2])])
    \o Flatten([i \in 1..Len(quality_reports) |-> generate_quality_alerts(quality_reports[i])])

generate_combined_alerts(quality_reports, pr_sentiments) ==
    Flatten([i \in 1..Len(quality_reports) |-> generate_quality_alerts(quality_reports[i])])
    \o Flatten([i \in 1..Len(pr_sentiments) |->
                   generate_sentiment_alerts(pr_sentiments[i][1], pr_sentiments[i][2])])

(* Arguments of the alert operations. *)
MaxIssues == 2
MaxScores == 5

IssueTexts ==
    {"High code complexity detected - consider refactoring",
     "Insufficient documentation - add docstrings and comments",
     "Coding standards violations detected - check line length and naming conventions",
     "Function exceeds 50 lines (51 lines) - consider breaking it down",
     "Reviewer note: High code complexity in the parser"}

Around(k) == {Rat(10 * k - 1, 10), RInt(k)}

AlertReports ==
    {CodeQualityReport("abc123", c, d, RInt(75), o, issues) :
        c \in Around(30), d \in Around(30), o \in Around(40),
        issues \in SeqUpTo(IssueTexts, MaxIssues)}

ScoreSamples ==
    {SentimentScore(Rat(-9, 10), "negative", Rat(9, 10)),
     SentimentScore(Rat(-7, 10), "negative", Rat(9, 10)),
     SentimentScore(Rat(-4, 5), "negative", Rat(4, 5)),
     SentimentScore(Rat(-9, 10), "neutral", Rat(9, 10)),
     SentimentScore(Rat(9, 10), "positive", Rat(9, 10))}

PrNumbers == {7}

GenerateQualityAlerts ==
    /\ op = "idle"
    /\ UNCHANGED <<engine, model, threads>>
    /\ \E report \in AlertReports :
        /\ op' = "generate_quality_alerts"
        /\ arg' = [report |-> report]
        /\ res' = Ok(generate_quality_alerts(report))
        /\ calls' = <<>>

GenerateSentimentAlerts ==
    /\ op = "idle"
    /\ UNCHANGED <<engine, model, threads>>
    /\ \E pr \in PrNumbers : \E scores \in SeqUpTo(ScoreSamples, MaxScores) :
        /\ op' = "generate_sentiment_alerts"
        /\ arg' = [pr |-> pr, scores |-> scores]
        /\ res' = Ok(generate_sentiment_alerts(pr, scores))
        /\ calls' = <<>>


(* Arguments of generate_combined_alerts: reports with 0 to 3 alerts, and  *)
(* pull requests with 0 to 2 alerts.                                        *)
MaxCombinedReports == 2
MaxCombinedPrs == 2

CombinedReports ==
    {CodeQualityReport("abc123", RInt(75), RInt(75), RInt(75), RInt(75), <<>>),
     CodeQualityReport("def456", RInt(29), RInt(75), RInt(75), Rat(179, 3), <<>>),
     CodeQualityReport("abc123", RInt(75), RInt(29), RInt(75), Rat(179, 3),
                       <<"Insufficient documentation - add docstrings and comments">>),
     CodeQualityReport("def456", RInt(10), RInt(10), RInt(75), Rat(95, 3),
                       <<"High code complexity detected - consider refactoring">>)}

CombinedPrSentiments ==
    {<<7, <<>> >>,
     <<7, <<SentimentScore(Rat(9, 10), "positive", Rat(9, 10))>> >>,
     <<8, <<SentimentScore(Rat(-4, 5), "negative", Rat(4, 5))>> >>,
     <<9, <<SentimentScore(Rat(-9, 10), "negative", Rat(9, 10)),
            SentimentScore(Rat(9, 10), "positive", Rat(9, 10))>> >>}

GenerateCombinedAlerts ==
    /\ op = "idle"
    /\ UNCHANGED <<engine, model, threads>>
    /\ \E reports \in SeqUpTo(CombinedReports, MaxCombinedReports),
          prs \in SeqUpTo(CombinedPrSentiments, MaxCombinedPrs) :
        /\ op' = "generate_combined_alerts"
        /\ arg' = [reports |-> reports, prs |-> prs]
        /\ res' = Ok(generate_combined_alerts(reports, prs))
        /\ calls' = <<>>

----------------------------------------------------------------------------
(* Properties of the AlertGenerator.                                        *)

TypeAndSeverity(alerts) == [i \in 1..Len(alerts) |-> <<alerts[i].type, alerts[i].severity>>]

(* C8: generate_quality_alerts returns, in this order, a high code_quality *)
(* alert iff overallScore < 40, a medium high_complexity alert iff         *)
(* complexity < 30, a low poor_documentation alert iff documentation < 30, *)
(* then one quality_issue alert per issue in issue order, medium when the  *)
(* issue contains 'High code complexity' and low otherwise; every alert's  *)
(* relatedEntity is the report's commit hash.                               *)
C8_QualityAlertList ==
    op = "generate_quality_alerts" =>
        LET r == arg.report
            expected ==
                (IF RLt(r.overallScore, RInt(40)) THEN << <<"code_quality", "high">> >> ELSE <<>>)
                \o (IF RLt(r.complexity, RInt(30)) THEN << <<"high_complexity", "medium">> >> ELSE <<>>)
                \o (IF RLt(r.documentation, RInt(30)) THEN << <<"poor_documentation", "low">> >> ELSE <<>>)
                \o [i \in 1..Len(r.issues) |->
                       <<"quality_issue",
                         IF Contains(r.issues[i], "High code complexity") THEN "medium" ELSE "low">>]
        IN /\ res.status = "ok"
           /\ TypeAndSeverity(res.value) = expected
           /\ \A i \in 1..Len(res.value) : res.value[i].relatedEntity = r.commitHash

C8_Witness ==
    /\ op = "generate_quality_alerts"
    /\ RLt(arg.report.overallScore, RInt(40))
    /\ ~ RLt(arg.report.complexity, RInt(30))
    /\ RLt(arg.report.documentation, RInt(30))
    /\ Len(arg.report.issues) = 2
    /\ arg.report.issues[1] = "Insufficient documentation - add docstrings and comments"
    /\ arg.report.issues[2] = "Reviewer note: High code complexity in the parser"
    /\ Len(res.value) = 4
    /\ res.value[4].severity = "medium"

NegativeCount(scores) == Cardinality({i \in 1..Len(scores) : scores[i].label = "negative"})

RatioAlertsIn(alerts) == SelectSeq(alerts, LAMBDA a : a.type = "negative_sentiment")

(* C9: for a non-empty score list generate_sentiment_alerts gives at most  *)
(* one negative_sentiment alert: high when the fraction of scores labelled *)
(* negative is > 0.4, medium when it is > 0.25 and not > 0.4, none when it *)
(* is <= 0.25; for the empty list the result is empty.                      *)
C9_RatioAlert ==
    op = "generate_sentiment_alerts" =>
        LET n == Len(arg.scores)
            k == NegativeCount(arg.scores)
            ra == RatioAlertsIn(res.value)
        IN /\ res.status = "ok"
           /\ n = 0 => res.value = <<>>
           /\ n > 0 =>
                /\ Len(ra) <= 1
                /\ 5 * k > 2 * n => (Len(ra) = 1 /\ ra[1].severity = "high")
                /\ (4 * k > n /\ 5 * k <= 2 * n) => (Len(ra) = 1 /\ ra[1].severity = "medium")
                /\ 4 * k <= n => Len(ra) = 0

(* Two of five scores are negative: the fraction is exactly 0.4. *)
C9_Witness ==
    /\ op = "generate_sentiment_alerts"
    /\ Len(arg.scores) = 5
    /\ NegativeCount(arg.scores) = 2
    /\ Len(RatioAlertsIn(res.value)) = 1
    /\ RatioAlertsIn(res.value)[1].severity = "medium"


CommentAlertsIn(alerts) == SelectSeq(alerts, LAMBDA a : a.type = "very_negative_comment")

(* the positions (from 1) of the scores below -0.7 held with confidence    *)
(* above 0.8, in increasing order                                           *)
VeryNegativePositions(scores) ==
    SelectSeq([i \in 1..Len(scores) |-> i],
              LAMBDA i : /\ RLt(scores[i].score, Rat(-7, 10))
                         /\ RLt(Rat(4, 5), scores[i].confidence))

(* C19: generate_sentiment_alerts gives exactly one medium                 *)
(* very_negative_comment alert for every element whose score is < -0.7 and *)
(* whose confidence is > 0.8, in input order, each message naming the      *)
(* element's 1-based position, whatever the element's label and whether or *)
(* not there is a ratio alert; the other elements give none.               *)
C19_VeryNegativeComments ==
    op = "generate_sentiment_alerts" =>
        LET found == CommentAlertsIn(res.value)
            positions == VeryNegativePositions(arg.scores)
        IN /\ res.status = "ok"
           /\ Len(found) = Len(positions)
           /\ \A k \in 1..Len(found) :
                 /\ found[k].severity = "medium"
                 /\ Contains(found[k].message, "(comment " \o ToString(positions[k]) \o ")")
                 /\ found[k].relatedEntity = ToString(arg.pr)

(* two very negative comments at positions 2 and 4, one of them labelled   *)
(* neutral, and no ratio alert                                              *)
C19_Witness ==
    /\ op = "generate_sentiment_alerts"
    /\ Len(arg.scores) = 5
    /\ VeryNegativePositions(arg.scores) = <<2, 4>>
    /\ arg.scores[2].label = "neutral"
    /\ Len(CommentAlertsIn(res.value)) = 2
    /\ RatioAlertsIn(res.value) = <<>>


QualityAlertTypes == {"code_quality", "high_complexity", "poor_documentation", "quality_issue"}

SentimentAlertTypes == {"negative_sentiment", "very_negative_comment"}

(* the number of alerts of the first k reports, and of the first k pairs *)
QualityAlertsBefore(reports, k) ==
    SumInts([i \in 1..k |-> Len(generate_quality_alerts(reports[i]))])

SentimentAlertsBefore(prs, k) ==
    SumInts([i \in 1..k |-> Len(generate_sentiment_alerts(prs[i][1], prs[i][2]))])

(* C20: generate_combined_alerts returns the alerts of                     *)
(* generate_quality_alerts for each report in input order, followed by the *)
(* alerts of generate_sentiment_alerts for each (prNumber, scores) pair in *)
(* input order: every quality alert precedes every sentiment alert, and    *)
(* the number of alerts is the sum of the sizes of the individual results. *)
C20_CombinedAlerts ==
    op = "generate_combined_alerts" =>
        LET reports == arg.reports
            prs == arg.prs
            quality == QualityAlertsBefore(reports, Len(reports))
            alerts == res.value
        IN /\ res.status = "ok"
           /\ Len(alerts) = quality + SentimentAlertsBefore(prs, Len(prs))
           /\ \A i \in 1..Len(reports) :
                 LET own == generate_quality_alerts(reports[i])
                     before == QualityAlertsBefore(reports, i - 1)
                 IN \A n \in 1..Len(own) : alerts[before + n] = own[n]
           /\ \A i \in 1..Len(prs) :
                 LET own == generate_sentiment_alerts(prs[i][1], prs[i][2])
                     before == quality + SentimentAlertsBefore(prs, i - 1)
                 IN \A n \in 1..Len(own) : alerts[before + n] = own[n]
           /\ \A m, n \in 1..Len(alerts) :
                 (alerts[m].type \in QualityAlertTypes /\ alerts[n].type \in SentimentAlertTypes)
                     => m < n

(* two reports and two pull requests, each with alerts of its own *)
C20_Witness ==
    /\ op = "generate_combined_alerts"
    /\ Len(arg.reports) = 2
    /\ Len(arg.prs) = 2
    /\ arg.reports[1] # arg.reports[2]
    /\ arg.prs[1] # arg.prs[2]
    /\ \A i \in 1..2 : Len(generate_quality_alerts(arg.reports[i])) > 0
    /\ \A i \in 1..2 : Len(generate_sentiment_alerts(arg.prs[i][1], arg.prs[i][2])) > 0
    /\ Len(res.value) >= 5

----------------------------------------------------------------------------
(* Records shared by the detector and the recommendation engine.  As for   *)
(* alerts, the generated id and the detection / creation time are left out. *)

NoMetadata == <<>>

DeveloperIds == {"dev-1"}

Activity(type, timestamp, metadata) ==
    [type |-> type, timestamp |-> timestamp, hasMetadata |-> TRUE, metadata |-> metadata]

Anomaly(developerId, type, severity, description, start, end, validated) ==
    [developerId |-> developerId, type |-> type, severity |-> severity,
     description |-> description,
     affectedTimeRange |-> [start |-> start, end |-> end],
     validated |-> validated]

Recommendation(developerId, type, title, description, actionItems, priority) ==
    [developerId |-> developerId, type |-> type, title |-> title,
     description |-> description, actionItems |-> actionItems, priority |-> priority]

----------------------------------------------------------------------------
(* AnomalyDetector.  A timestamp is a whole number of hours since a Monday *)
(* 00:00; a metadata value is <<n>> for the integer n and <<>> for None.   *)

DateOf(timestamp) == timestamp \div 24
HourOf(timestamp) == timestamp % 24
WeekdayOf(timestamp) == DateOf(timestamp) % 7
PlusDays(timestamp, days) == timestamp + 24 * days
PlusHours(timestamp, hours) == timestamp + hours

RECURSIVE Ascending(_)
Ascending(S) ==
    IF S = {} THEN <<>>
    ELSE LET least == CHOOSE x \in S : \A y \in S : x <= y
         IN <<least>> \o Ascending(S \ {least})

(* sorted(activities, key=timestamp): stable, so equal timestamps keep the *)
(* order of the input.                                                      *)
SortedByTimestamp(activities) ==
    LET keys == Ascending({activities[i].timestamp : i \in 1..Len(activities)})
    IN Flatten([k \in 1..Len(keys) |->
                   SelectSeq(activities, LAMBDA a : a.timestamp = keys[k])])

(* calculate_daily_counts with one more bucket after the last activity's day. *)
calculate_daily_counts_extraDay(activities) ==
    IF Len(activities) = 0 THEN <<>>
    ELSE LET start_date == DateOf(activities[1].timestamp)
             end_date == DateOf(activities[Len(activities)].timestamp)
             days == (end_date - start_date) + 2
         IN [d \in 1..days |->
                Cardinality({i \in 1..Len(activities) :
                                DateOf(activities[i].timestamp) - start_date = d - 1})]

(* counts[d + 1] is the code's counts[d] *)
calculate_daily_counts(activities) ==
    IF Len(activities) = 0 THEN <<>>
    ELSE LET start_date == DateOf(activities[1].timestamp)
             end_date == DateOf(activities[Len(activities)].timestamp)
             days == (end_date - start_date) + 1
         IN [d \in 1..days |->
                Cardinality({i \in 1..Len(activities) :
                                DateOf(activities[i].timestamp) - start_date = d - 1})]

(* DropAnomaly that marks the anomaly as validated. *)
DropAnomaly_validated(developer_id, first_timestamp, i, current, recent_avg) ==
    Anomaly(developer_id, "productivity_drop",
            IF current = 0 THEN "high" ELSE "medium",
            "Significant productivity drop detected",
            PlusDays(first_timestamp, i), PlusDays(PlusDays(first_timestamp, i), 1), TRUE)

DropAnomaly(developer_id, first_timestamp, i, current, recent_avg) ==
    LET date == PlusDays(first_timestamp, i)
    IN Anomaly(developer_id, "productivity_drop",
               IF current = 0 THEN "high" ELSE "medium",
               "Significant productivity drop detected: " \o ToString(current)
                   \o " activities vs " \o Fixed(recent_avg, 1) \o " average",
               date, PlusDays(date, 1), FALSE)

(* IsDrop without the floor on the recent average. *)
IsDrop_noFloor(current, recent_avg) ==
    RLt(RMulInt(RInt(current), 10), RMulInt(recent_avg, 3))

(* recent_avg > 2 and current < recent_avg * 0.3 *)
IsDrop(current, recent_avg) ==
    RLt(RInt(2), recent_avg) /\ RLt(RMulInt(RInt(current), 10), RMulInt(recent_avg, 3))

detect_productivity_drops(developer_id, activities) ==
    IF Len(activities) < 14 THEN <<>>
    ELSE LET sorted_activities == SortedByTimestamp(activities)
             daily_counts == calculate_daily_counts(sorted_activities)
             window_size == 7
         IN IF Len(daily_counts) < 7 THEN <<>>
            ELSE Flatten([k \in 1..(Len(daily_counts) - window_size) |->
                    LET i == window_size + k - 1
                        recent_avg == Rat(SumInts(SubSeq(daily_counts, i - window_size + 1, i)),
                                          window_size)
                        current == daily_counts[i + 1]
                    IN IF IsDrop(current, recent_avg)
                       THEN <<DropAnomaly(developer_id, sorted_activities[1].timestamp,
                                          i, current, recent_avg)>>
                       ELSE <<>>])

encode_activity_type(activity_type) ==
    CASE activity_type = "commit" -> 0
      [] activity_type = "pull_request" -> 1
      [] activity_type = "issue" -> 2
      [] activity_type = "review" -> 3
      [] OTHER -> 0

(* dict.get(key, 0): the default only replaces a missing key *)
Get(metadata, key) == IF key \in DOMAIN metadata THEN metadata[key] ELSE <<0>>

IsNone(v) == v = <<>>

(* The feature row of one activity, or "raised" when building it fails: a  *)
(* missing 'metadata' key (KeyError) or None + int (TypeError).            *)
FeatureRow(activity) ==
    IF ~ activity.hasMetadata THEN Raised
    ELSE LET added == Get(activity.metadata, "linesAdded")
             deleted == Get(activity.metadata, "linesDeleted")
             files == Get(activity.metadata, "filesChanged")
         IN IF IsNone(added) \/ IsNone(deleted) THEN Raised
            ELSE Ok(<<HourOf(activity.timestamp), WeekdayOf(activity.timestamp),
                      encode_activity_type(activity.type),
                      <<added[1] + deleted[1]>>, files>>)

extract_features(activities) ==
    LET rows == [i \in 1..Len(activities) |-> FeatureRow(activities[i])]
    IN IF \E i \in 1..Len(activities) : rows[i].status = "raised"
       THEN Raised
       ELSE Ok([i \in 1..Len(activities) |-> rows[i].value])

(* IsolationForest.fit_predict is an external model: the rows it labels -1 *)
(* are given by a strategy, one of a few stand-ins for what the fitted     *)
(* forest may answer; a matrix holding None makes it raise.                 *)
ForestStrategies == {"none", "first", "ends", "raise"}

FitPredict(strategy, features) ==
    IF strategy = "raise" \/ (\E i \in 1..Len(features) : IsNone(features[i][5]))
    THEN Raised
    ELSE Ok(CASE strategy = "none" -> {}
              [] strategy = "first" -> {1}
              [] strategy = "ends" -> {1, Len(features)})

PatternAnomaly(developer_id, activity) ==
    Anomaly(developer_id, "unusual_pattern", "low",
            "Unusual activity pattern detected for " \o activity.type \o " activity",
            activity.timestamp, PlusHours(activity.timestamp, 1), FALSE)

(* OnForestError without the except clause. *)
OnForestError_propagate == Raised

(* except Exception: log and return [] *)
OnForestError == Ok(<<>>)

detect_unusual_patterns(developer_id, activities, strategy) ==
    IF Len(activities) < 20 THEN Ok(<<>>)
    ELSE LET features == extract_features(activities)
         IN IF features.status = "raised" THEN Raised
            ELSE IF Len(features.value) < 20 THEN Ok(<<>>)
            ELSE LET predictions == FitPredict(strategy, features.value)
                 IN IF predictions.status = "raised" THEN OnForestError
                    ELSE Ok(Flatten([i \in 1..Len(activities) |->
                                IF i \in predictions.value
                                THEN <<PatternAnomaly(developer_id, activities[i])>>
                                ELSE <<>>]))

(* detect_anomalies that extends the list with the pattern anomalies first. *)
detect_anomalies_patternsFirst(developer_id, activities, strategy) ==
    IF Len(activities) < 10 THEN Ok(<<>>)
    ELSE LET productivity_anomalies == detect_productivity_drops(developer_id, activities)
             pattern_anomalies == detect_unusual_patterns(developer_id, activities, strategy)
         IN IF pattern_anomalies.status = "raised" THEN Raised
            ELSE Ok(pattern_anomalies.value \o productivity_anomalies)

detect_anomalies(developer_id, activities, strategy) ==
    IF Len(activities) < 10 THEN Ok(<<>>)
    ELSE LET productivity_anomalies == detect_productivity_drops(developer_id, activities)
             pattern_anomalies == detect_unusual_patterns(developer_id, activities, strategy)
         IN IF pattern_anomalies.status = "raised" THEN Raised
            ELSE Ok(productivity_anomalies \o pattern_anomalies.value)

(* Activity logs.  A log has `perDay` activities on each of its first      *)
(* `baseDays` days, then tail[k] activities on the k-th day after them,    *)
(* all at the same hour of day; the j-th activity in time order has the    *)
(* j-th type in rotation.  `order` is the order of the list handed to the  *)
(* detector, `first` the metadata of its first element.                    *)
TypeRotation == <<"commit", "pull_request", "issue", "review">>

FullMetadata == [linesAdded |-> <<10>>, linesDeleted |-> <<5>>, filesChanged |-> <<2>>]

MetadataKinds == {"full", "empty", "nullLines", "nullFiles", "absent"}

WithMetadata(activity, kind) ==
    CASE kind = "full" -> activity
      [] kind = "empty" -> [activity EXCEPT !.metadata = NoMetadata]
      [] kind = "nullLines" -> [activity EXCEPT !.metadata = [linesAdded |-> <<>>, linesDeleted |-> <<5>>]]
      [] kind = "nullFiles" -> [activity EXCEPT !.metadata = [linesAdded |-> <<10>>, filesChanged |-> <<>>]]
      [] kind = "absent" -> [activity EXCEPT !.hasMetadata = FALSE, !.metadata = NoMetadata]

DayCounts(baseDays, perDay, tail) == [d \in 1..baseDays |-> perDay] \o tail

RECURSIVE DayOfIndex(_, _)
(* the day (from 0) of the j-th activity in time order *)
DayOfIndex(counts, j) ==
    IF j <= counts[1] THEN 0 ELSE 1 + DayOfIndex(Tail(counts), j - counts[1])

Reverse(s) == [i \in 1..Len(s) |-> s[Len(s) + 1 - i]]

ActivityLog(baseDays, perDay, tail, hour, order, first) ==
    LET counts == DayCounts(baseDays, perDay, tail)
        n == SumInts(counts)
        chrono == [j \in 1..n |->
                      Activity(TypeRotation[((j - 1) % 4) + 1],
                               PlusHours(PlusDays(0, DayOfIndex(counts, j)), hour),
                               FullMetadata)]
        listed == IF order = "reversed" THEN Reverse(chrono) ELSE chrono
    IN IF n = 0 THEN <<>> ELSE <<WithMetadata(Head(listed), first)>> \o Tail(listed)

TailDays == 2
BaseDays == 7
LogParameters ==
    [baseDays : {BaseDays}, perDay : {1, 2, 3, 4}, tail : [1..TailDays -> {0, 1, 4}],
     hour : {0, 13}, order : {"chronological", "reversed"}, first : MetadataKinds]

(* The end-to-end scenario of the tests: 14 days of 20 activities, then 7  *)
(* days of 0 or 1.                                                          *)
ScenarioParameters ==
    [baseDays : {14}, perDay : {20}, tail : [1..7 -> {0, 1}],
     hour : {9}, order : {"chronological"}, first : {"full"}]

LogOf(p) == ActivityLog(p.baseDays, p.perDay, p.tail, p.hour, p.order, p.first)

DetectAnomalies ==
    /\ op = "idle"
    /\ UNCHANGED <<engine, model, threads>>
    /\ \E dev \in DeveloperIds, p \in LogParameters, strategy \in ForestStrategies :
        /\ op' = "detect_anomalies"
        /\ arg' = [developerId |-> dev, log |-> p, forest |-> strategy]
        /\ res' = detect_anomalies(dev, LogOf(p), strategy)
        /\ calls' = <<>>

DetectScenario ==
    /\ op = "idle"
    /\ UNCHANGED <<engine, model, threads>>
    /\ \E dev \in DeveloperIds, p \in ScenarioParameters, strategy \in ForestStrategies :
        /\ op' = "detect_anomalies"
        /\ arg' = [developerId |-> dev, log |-> p, forest |-> strategy]
        /\ res' = detect_anomalies(dev, LogOf(p), strategy)
        /\ calls' = <<>>

----------------------------------------------------------------------------
(* Properties of the AnomalyDetector.                                       *)

(* C6: every anomaly detect_anomalies returns, from either pass, has       *)
(* validated = false.                                                       *)
C6_NeverValidated ==
    (op = "detect_anomalies" /\ res.status = "ok") =>
        \A i \in 1..Len(res.value) : res.value[i].validated = FALSE

C6_Witness ==
    /\ op = "detect_anomalies"
    /\ res.status = "ok"
    /\ \E i \in 1..Len(res.value) : res.value[i].type = "productivity_drop"
    /\ \E i \in 1..Len(res.value) : res.value[i].type = "unusual_pattern"

(* A high productivity_drop anomaly for a day of the scenario's last week  *)
(* that has no activity. *)
HighDropOnEmptyDay(anomalies, p) ==
    \E i \in 1..Len(anomalies) :
        /\ anomalies[i].type = "productivity_drop"
        /\ anomalies[i].severity = "high"
        /\ LET day == DateOf(anomalies[i].affectedTimeRange.start)
           IN /\ day >= p.baseDays
              /\ day < p.baseDays + Len(p.tail)
              /\ p.tail[day - p.baseDays + 1] = 0

InScenario == op = "detect_anomalies" /\ arg.log.baseDays = 14 /\ arg.log.perDay = 20

(* C7: for 14 days of 20 commits followed by 7 days of 0 or 1 commits, at  *)
(* least one of them with 0, detect_anomalies returns a high               *)
(* productivity_drop anomaly for a day that has 0 commits.                  *)
C7_DropScenarioDetected ==
    (InScenario /\ \E k \in 1..7 : arg.log.tail[k] = 0) =>
        res.status = "ok" /\ HighDropOnEmptyDay(res.value, arg.log)

(* What the code does guarantee: an empty day that is followed by a day    *)
(* with a commit is reported. *)
DropScenario_SeenBeforeLastActivity ==
    (InScenario /\ \E k \in 1..6 : arg.log.tail[k] = 0 /\ \E j \in (k + 1)..7 : arg.log.tail[j] = 1) =>
        res.status = "ok" /\ HighDropOnEmptyDay(res.value, arg.log)

(* ... and an empty day after the last activity is not. *)
DropScenario_TrailingDaysUnseen ==
    (InScenario /\ res.status = "ok") =>
        \A i \in 1..Len(res.value) :
            res.value[i].type = "productivity_drop" =>
                \E j \in 1..7 : /\ arg.log.tail[j] = 1
                                /\ DateOf(res.value[i].affectedTimeRange.start) <= 13 + j

(* The daily buckets of a log: its counts per day from the day of the      *)
(* earliest activity to the day of the latest one.                          *)
Buckets(p) ==
    LET counts == DayCounts(p.baseDays, p.perDay, p.tail)
        busy == {d \in 1..Len(counts) : counts[d] > 0}
    IN IF busy = {} THEN <<>>
       ELSE SubSeq(counts, 1, CHOOSE d \in busy : \A e \in busy : e <= d)

Drops(anomalies) == SelectSeq(anomalies, LAMBDA a : a.type = "productivity_drop")

Patterns(anomalies) == SelectSeq(anomalies, LAMBDA a : a.type = "unusual_pattern")

(* the drop anomalies reported for day index i of a log that starts on day 0 *)
DropsOfDay(anomalies, i) ==
    SelectSeq(Drops(anomalies), LAMBDA a : DateOf(a.affectedTimeRange.start) = i)

(* the sum of the counts of the days i-7..i-1 (bucket d + 1 holds day d) *)
WindowSum(buckets, i) == SumInts(SubSeq(buckets, i - 6, i))

InDropPass ==
    /\ op = "detect_anomalies"
    /\ res.status = "ok"
    /\ SumInts(Buckets(arg.log)) >= 14
    /\ Len(Buckets(arg.log)) >= 7

(* C14: in the productivity-drop pass, a day index i >= 7 gets an anomaly  *)
(* if and only if the mean of the counts of days i-7..i-1 is above 2 and   *)
(* the count of day i is below 0.3 times that mean; the anomaly is high    *)
(* if the count of day i is 0 and medium otherwise; a day index below 7    *)
(* never gets one.                                                          *)
C14_DropRule ==
    InDropPass =>
        LET buckets == Buckets(arg.log)
        IN /\ \A i \in 7..(Len(buckets) - 1) :
                 LET mean == Rat(WindowSum(buckets, i), 7)
                     count == buckets[i + 1]
                     found == DropsOfDay(res.value, i)
                 IN /\ Len(found) <= 1
                    /\ Len(found) = 1 <=>
                          (RLt(RInt(2), mean) /\ RLt(Rat(10 * count, 3), mean))
                    /\ Len(found) = 1 =>
                          found[1].severity = IF count = 0 THEN "high" ELSE "medium"
           /\ \A k \in 1..Len(res.value) :
                 res.value[k].type = "productivity_drop" =>
                     /\ DateOf(res.value[k].affectedTimeRange.start) >= 7
                     /\ DateOf(res.value[k].affectedTimeRange.start) < Len(buckets)

(* a high drop on day 7 and a medium drop on day 8 of one log *)
C14_Witness ==
    /\ InDropPass
    /\ Len(DropsOfDay(res.value, 7)) = 1
    /\ DropsOfDay(res.value, 7)[1].severity = "high"
    /\ Len(DropsOfDay(res.value, 8)) = 1
    /\ DropsOfDay(res.value, 8)[1].severity = "medium"
    /\ arg.log.perDay = 4

(* the day indices of a log whose count is a drop against the 7 days before *)
TriggerDays(buckets) ==
    Ascending({i \in 7..(Len(buckets) - 1) :
                  /\ RLt(RInt(2), Rat(WindowSum(buckets, i), 7))
                  /\ RLt(Rat(10 * buckets[i + 1], 3), Rat(WindowSum(buckets, i), 7))})

(* C15: the affected time range of each productivity_drop anomaly is the   *)
(* calendar day whose count triggered it: it starts at the beginning of    *)
(* calendar day i, counted from the date of the earliest activity, and     *)
(* ends at the beginning of the next calendar day, whatever the time of    *)
(* day of the earliest activity.  (The logs of the model start on day 0.)  *)
C15_RangeIsCalendarDay ==
    InDropPass =>
        LET days == TriggerDays(Buckets(arg.log))
            drops == Drops(res.value)
        IN /\ Len(drops) = Len(days)
           /\ \A k \in 1..Len(drops) :
                 /\ drops[k].affectedTimeRange.start = PlusDays(0, days[k])
                 /\ drops[k].affectedTimeRange.end = PlusDays(0, days[k] + 1)

(* What the code does guarantee: the range is the 24 hours that start on   *)
(* day i at the time of day of the earliest activity ...                    *)
DropRange_FromFirstTimestamp ==
    InDropPass =>
        LET days == TriggerDays(Buckets(arg.log))
            drops == Drops(res.value)
        IN /\ Len(drops) = Len(days)
           /\ \A k \in 1..Len(drops) :
                 /\ drops[k].affectedTimeRange.start
                        = PlusDays(PlusHours(0, arg.log.hour), days[k])
                 /\ drops[k].affectedTimeRange.end
                        = PlusDays(drops[k].affectedTimeRange.start, 1)

(* ... which is the calendar day only when the earliest activity is at     *)
(* midnight. *)
DropRange_CalendarDayAtMidnight ==
    (InDropPass /\ arg.log.hour = 0) =>
        \A k \in 1..Len(Drops(res.value)) :
            HourOf(Drops(res.value)[k].affectedTimeRange.start) = 0

(* the rows (from 1) that the forest labels -1 among n rows *)
Flagged(strategy, n) ==
    CASE strategy = "first" -> {1}
      [] strategy = "ends" -> {1, n}
      [] OTHER -> {}

(* C16: detect_anomalies returns the productivity_drop anomalies in        *)
(* increasing day order, followed by the unusual_pattern anomalies in the  *)
(* order of the input list (not the timestamp-sorted order); no            *)
(* unusual_pattern anomaly precedes a productivity_drop anomaly.           *)
C16_DropsThenPatterns ==
    (op = "detect_anomalies" /\ res.status = "ok") =>
        LET drops == Drops(res.value)
            patterns == Patterns(res.value)
            activities == LogOf(arg.log)
            rows == Ascending(Flagged(arg.forest, Len(activities)))
        IN /\ res.value = drops \o patterns
           /\ \A k \in 1..(Len(drops) - 1) :
                 drops[k].affectedTimeRange.start < drops[k + 1].affectedTimeRange.start
           /\ Len(patterns) > 0 =>
                 patterns = [k \in 1..Len(rows) |->
                                PatternAnomaly(arg.developerId, activities[rows[k]])]

(* a log listed latest first: two drops, then the patterns of the first    *)
(* and the last listed activity, the later one first                        *)
C16_Witness ==
    /\ op = "detect_anomalies"
    /\ res.status = "ok"
    /\ arg.log.order = "reversed"
    /\ Len(Drops(res.value)) = 2
    /\ Len(Patterns(res.value)) = 2
    /\ Patterns(res.value)[1].affectedTimeRange.start
           > Patterns(res.value)[2].affectedTimeRange.start

(* The forest is reached and fails: the list has at least 20 activities,   *)
(* the feature rows can be built, and fit_predict raises (by itself, or on *)
(* a row that holds None).                                                  *)
ForestFails ==
    /\ op = "detect_anomalies"
    /\ SumInts(DayCounts(arg.log.baseDays, arg.log.perDay, arg.log.tail)) >= 20
    /\ arg.log.first \notin {"nullLines", "absent"}
    /\ (arg.forest = "raise" \/ arg.log.first = "nullFiles")

(* C17: if the outlier model fails during the unusual-pattern pass,        *)
(* detect_anomalies raises nothing and returns exactly the                 *)
(* productivity_drop anomalies it returns for the same activities when the *)
(* model works, and no unusual_pattern anomaly.                             *)
C17_ForestFailureContained ==
    ForestFails =>
        /\ res.status = "ok"
        /\ Patterns(res.value) = <<>>
        /\ res.value = Drops(detect_anomalies(arg.developerId,
                                              LogOf([arg.log EXCEPT !.first = "full"]),
                                              "ends").value)

(* the forest raises on a log with two drops *)
C17_Witness ==
    /\ ForestFails
    /\ arg.forest = "raise"
    /\ res.status = "ok"
    /\ Len(res.value) = 2

(* C18: detect_anomalies never fails because of missing or null optional   *)
(* fields: an activity whose metadata lacks linesAdded, linesDeleted or    *)
(* filesChanged, holds them as null, or has no metadata at all, is treated *)
(* as having 0 for those features, and detection completes as it does for  *)
(* the same activity with empty metadata.                                   *)
C18_OptionalFieldsDefaultToZero ==
    (op = "detect_anomalies") =>
        /\ res.status = "ok"
        /\ res = detect_anomalies(arg.developerId,
                                  LogOf([arg.log EXCEPT !.first = "empty"]), arg.forest)

(* What the code does guarantee: missing keys of a metadata map count as 0 *)
(* ...                                                                      *)
OptionalFields_MissingKeysAreZero ==
    (op = "detect_anomalies" /\ arg.log.first = "empty") =>
        /\ res.status = "ok"
        /\ res = detect_anomalies(arg.developerId,
                                  LogOf([arg.log EXCEPT !.first = "full"]), arg.forest)

(* ... a null linesAdded or a missing metadata map makes detection raise   *)
(* as soon as the feature rows are built (20 activities or more) ...       *)
OptionalFields_NullLinesOrNoMetadataRaise ==
    (/\ op = "detect_anomalies"
     /\ arg.log.first \in {"nullLines", "absent"}) =>
        (res.status = "raised"
            <=> SumInts(DayCounts(arg.log.baseDays, arg.log.perDay, arg.log.tail)) >= 20)

(* ... and a null filesChanged loses the unusual_pattern anomalies.        *)
OptionalFields_NullFilesLosesPatterns ==
    (op = "detect_anomalies" /\ arg.log.first = "nullFiles") =>
        /\ res.status = "ok"
        /\ Patterns(res.value) = <<>>

----------------------------------------------------------------------------
(* RecommendationEngine                                                     *)

CountOfType(activities, type) ==
    Cardinality({i \in 1..Len(activities) : activities[i].type = type})

KnownTypes == {"commit", "pull_request", "issue", "review"}

(* sum(activity_counts.values()): the activities of a known type *)
TotalActivities(activities) ==
    Cardinality({i \in 1..Len(activities) : activities[i].type \in KnownTypes})

(* int(x) of a float: truncation towards zero *)
Trunc(x) == IF x.n >= 0 THEN x.n \div x.d ELSE 0 - ((0 - x.n) \div x.d)

TargetReviews(total, reviews) == Trunc(RSub(Rat(total * 20, 100), RInt(reviews)))

(* ReviewActionItems without the two fixed items. *)
ReviewActionItems_onlyTarget(target_reviews) ==
    <<"Review " \o ToString(target_reviews) \o " more pull requests this week">>

ReviewActionItems(target_reviews) ==
    <<"Review " \o ToString(target_reviews) \o " more pull requests this week",
      "Set aside 30 minutes daily for code reviews",
      "Subscribe to PR notifications for your team">>

ReviewRecommendation(developer_id, total, reviews) ==
    Recommendation(developer_id, "code_review_participation",
        "Increase Code Review Participation",
        "Your code review participation is at "
            \o Fixed(RMulInt(Rat(reviews, total), 100), 1)
            \o "%. Aim for at least 20% of activities.",
        ReviewActionItems(TargetReviews(total, reviews)),
        "medium")

PullRequestRecommendation(developer_id) ==
    Recommendation(developer_id, "pull_request_creation",
        "Create More Pull Requests",
        "Consider breaking your work into smaller, more frequent pull requests for better collaboration.",
        <<"Break large features into smaller PRs",
          "Aim for PRs under 400 lines of code",
          "Submit PRs at least twice per week">>,
        "low")

analyze_activity_patterns(developer_id, activities) ==
    IF Len(activities) = 0 THEN <<>>
    ELSE LET total == TotalActivities(activities)
             reviews == CountOfType(activities, "review")
             prs == CountOfType(activities, "pull_request")
         IN (IF total > 10 /\ RLt(Rat(reviews, total), Rat(15, 100))
             THEN <<ReviewRecommendation(developer_id, total, reviews)>>
             ELSE <<>>)
            \o (IF total > 10 /\ RLt(Rat(prs, total), Rat(10, 100))
                THEN <<PullRequestRecommendation(developer_id)>>
                ELSE <<>>)

ProductivityRecommendation(developer_id) ==
    Recommendation(developer_id, "productivity_recovery",
        "Address Productivity Drop",
        "A significant drop in activity has been detected. Consider if there are blockers or support needed.",
        <<"Identify any blockers or dependencies",
          "Reach out to team lead if you need support",
          "Review your current task priorities">>,
        "high")

(* analyze_anomalies with one recommendation for each high drop. *)
analyze_anomalies_perDrop(developer_id, anomalies) ==
    LET productivity_drops == SelectSeq(anomalies, LAMBDA a : a.type = "productivity_drop")
        high_severity == SelectSeq(productivity_drops, LAMBDA a : a.severity = "high")
    IN [k \in 1..Len(high_severity) |-> ProductivityRecommendation(developer_id)]

analyze_anomalies(developer_id, anomalies) ==
    LET productivity_drops == SelectSeq(anomalies, LAMBDA a : a.type = "productivity_drop")
        high_severity == SelectSeq(productivity_drops, LAMBDA a : a.severity = "high")
    IN IF Len(productivity_drops) > 0 /\ Len(high_severity) > 0
       THEN <<ProductivityRecommendation(developer_id)>>
       ELSE <<>>

(* Mean that takes the first value for the mean. *)
Mean_first(values) == values[1]

Mean(values) == RDivInt(RSum(values), Len(values))

ComplexityRecommendation(developer_id, avg_complexity) ==
    Recommendation(developer_id, "code_complexity",
        "Reduce Code Complexity",
        "Your average code complexity score is " \o Fixed(avg_complexity, 1)
            \o "/100. Simpler code is easier to maintain.",
        <<"Break down complex functions into smaller ones",
          "Reduce nesting levels in control flow",
          "Extract repeated logic into helper functions",
          "Consider using design patterns for complex logic">>,
        "high")

DocumentationRecommendation(developer_id, avg_documentation) ==
    Recommendation(developer_id, "documentation",
        "Improve Code Documentation",
        "Your documentation score is " \o Fixed(avg_documentation, 1)
            \o "/100. Better documentation helps team collaboration.",
        <<"Add docstrings to all functions and classes",
          "Document complex logic with inline comments",
          "Include usage examples in docstrings",
          "Update documentation when changing code">>,
        "medium")

StandardsRecommendation(developer_id, avg_standards) ==
    Recommendation(developer_id, "coding_standards",
        "Follow Coding Standards",
        "Your coding standards score is " \o Fixed(avg_standards, 1)
            \o "/100. Consistent style improves code readability.",
        <<"Keep lines under 100 characters",
          "Use consistent indentation (4 spaces)",
          "Follow naming conventions for your language",
          "Run linter before committing code">>,
        "low")

analyze_code_quality_reports(developer_id, quality_reports) ==
    IF Len(quality_reports) = 0 THEN <<>>
    ELSE LET avg_complexity == Mean([i \in 1..Len(quality_reports) |-> quality_reports[i].complexity])
             avg_documentation == Mean([i \in 1..Len(quality_reports) |-> quality_reports[i].documentation])
             avg_standards == Mean([i \in 1..Len(quality_reports) |-> quality_reports[i].standards])
         IN (IF RLt(avg_complexity, RInt(50))
             THEN <<ComplexityRecommendation(developer_id, avg_complexity)>> ELSE <<>>)
            \o (IF RLt(avg_documentation, RInt(40))
                THEN <<DocumentationRecommendation(developer_id, avg_documentation)>> ELSE <<>>)
            \o (IF RLt(avg_standards, RInt(60))
                THEN <<StandardsRecommendation(developer_id, avg_standards)>> ELSE <<>>)

ToneRecommendation(developer_id, negative_ratio) ==
    Recommendation(developer_id, "collaboration_tone",
        "Improve Collaboration Tone",
        Fixed(RMulInt(negative_ratio, 100), 1)
            \o "% of your recent communications show negative sentiment. Positive collaboration improves team health.",
        <<"Focus on constructive feedback in code reviews",
          "Acknowledge good work from teammates",
          "Use \"we\" language instead of \"you\" when discussing issues",
          "Take breaks if feeling frustrated before responding">>,
        "medium")

analyze_sentiment_scores(developer_id, sentiment_scores) ==
    IF Len(sentiment_scores) = 0 THEN <<>>
    ELSE LET negative_ratio == NegativeRatio(sentiment_scores)
         IN IF RLt(Rat(3, 10), negative_ratio)
            THEN <<ToneRecommendation(developer_id, negative_ratio)>>
            ELSE <<>>

generate_recommendations(developer_id, activities, anomalies, quality_reports, sentiment_scores) ==
    analyze_activity_patterns(developer_id, activities)
    \o analyze_anomalies(developer_id, anomalies)
    \o analyze_code_quality_reports(developer_id, quality_reports)
    \o analyze_sentiment_scores(developer_id, sentiment_scores)

(* Arguments of generate_recommendations.  An activity log is given by its *)
(* number of commits, pull requests, reviews and activities of a type the  *)
(* engine does not know.                                                    *)
MaxAnomalies == 1
MaxReports == 1
MaxRecScores == 3

TypedLog(commits, prs, reviews, others) ==
    [i \in 1..commits |-> Activity("commit", 0, NoMetadata)]
    \o [i \in 1..prs |-> Activity("pull_request", 0, NoMetadata)]
    \o [i \in 1..reviews |-> Activity("review", 0, NoMetadata)]
    \o [i \in 1..others |-> Activity("deployment", 0, NoMetadata)]

LogShapes == {0, 8, 11, 12} \X {0, 1} \X {0, 1, 2} \X {0, 2}

AnomalySamples ==
    {Anomaly("dev-1", "productivity_drop", "high", "drop", 0, 24, FALSE),
     Anomaly("dev-1", "productivity_drop", "medium", "drop", 0, 24, FALSE),
     Anomaly("dev-1", "unusual_pattern", "low", "pattern", 0, 1, FALSE)}

ReportSamples ==
    {CodeQualityReport("abc123", RInt(20), RInt(20), RInt(20), RInt(20), <<>>),
     CodeQualityReport("abc123", Rat(499, 10), RInt(40), RInt(60), Rat(1499, 30), <<>>),
     CodeQualityReport("abc123", RInt(50), Rat(399, 10), Rat(599, 10), Rat(1498, 30), <<>>),
     CodeQualityReport("abc123", RInt(80), RInt(80), RInt(80), RInt(80), <<>>)}

RecScoreSamples ==
    {SentimentScore(Rat(-9, 10), "negative", Rat(9, 10)),
     SentimentScore(Rat(9, 10), "positive", Rat(9, 10))}

GenerateRecommendations ==
    /\ op = "idle"
    /\ UNCHANGED <<engine, model, threads>>
    /\ \E dev \in DeveloperIds, shape \in LogShapes,
          anomalies \in SeqUpTo(AnomalySamples, MaxAnomalies),
          reports \in SeqUpTo(ReportSamples, MaxReports),
          scores \in SeqUpTo(RecScoreSamples, MaxRecScores) :
        /\ op' = "generate_recommendations"
        /\ arg' = [developerId |-> dev, log |-> shape, anomalies |-> anomalies,
                   reports |-> reports, scores |-> scores]
        /\ res' = Ok(generate_recommendations(dev,
                        TypedLog(shape[1], shape[2], shape[3], shape[4]),
                        anomalies, reports, scores))
        /\ calls' = <<>>

----------------------------------------------------------------------------
(* Properties of the RecommendationEngine.                                  *)

(* C10: every recommendation has a non-empty title, a description longer   *)
(* than 10 characters, a priority among low, medium, high, and 3 or 4      *)
(* action items each longer than 5 characters; its developerId is the      *)
(* developer_id argument.                                                   *)
C10_Actionable ==
    op = "generate_recommendations" =>
        /\ res.status = "ok"
        /\ \A i \in 1..Len(res.value) :
            LET rec == res.value[i]
            IN /\ Len(rec.title) > 0
               /\ Len(rec.description) > 10
               /\ rec.priority \in {"low", "medium", "high"}
               /\ Len(rec.actionItems) \in {3, 4}
               /\ \A k \in 1..Len(rec.actionItems) : Len(rec.actionItems[k]) > 5
               /\ rec.developerId = arg.developerId

(* All seven rules fire at once. *)
C10_Witness ==
    /\ op = "generate_recommendations"
    /\ Len(res.value) = 7
    /\ res.value[1].type = "code_review_participation"
    /\ Len(res.value[1].actionItems) = 3
    /\ res.value[4].type = "code_complexity"
    /\ Len(res.value[4].actionItems) = 4

(* Several quality reports at once: the rules work on their means. *)
MaxMeanReports == 2

MeanReportSamples ==
    ReportSamples \cup
    {CodeQualityReport("def456", RInt(0), RInt(100), RInt(100), Rat(200, 3), <<>>),
     CodeQualityReport("def456", RInt(100), RInt(0), RInt(0), Rat(100, 3), <<>>)}

GenerateQualityRecommendations ==
    /\ op = "idle"
    /\ UNCHANGED <<engine, model, threads>>
    /\ \E dev \in DeveloperIds, shape \in {<<0, 0, 0, 0>>, <<12, 0, 0, 0>>},
          reports \in SeqUpTo(MeanReportSamples, MaxMeanReports),
          scores \in SeqUpTo(RecScoreSamples, 1) :
        /\ op' = "generate_recommendations"
        /\ arg' = [developerId |-> dev, log |-> shape, anomalies |-> <<>>,
                   reports |-> reports, scores |-> scores]
        /\ res' = Ok(generate_recommendations(dev,
                        TypedLog(shape[1], shape[2], shape[3], shape[4]),
                        <<>>, reports, scores))
        /\ calls' = <<>>

(* Arguments that set off any of the four rule sets, with several drops. *)
MaxDrops == 2

GenerateAllRecommendations ==
    /\ op = "idle"
    /\ UNCHANGED <<engine, model, threads>>
    /\ \E dev \in DeveloperIds, shape \in {<<0, 0, 0, 0>>, <<12, 0, 0, 0>>, <<8, 3, 3, 0>>},
          anomalies \in SeqUpTo(AnomalySamples, MaxDrops),
          reports \in SeqUpTo({CodeQualityReport("abc123", RInt(20), RInt(20), RInt(20),
                                                 RInt(20), <<>>)}, 1),
          scores \in SeqUpTo(RecScoreSamples, 1) :
        /\ op' = "generate_recommendations"
        /\ arg' = [developerId |-> dev, log |-> shape, anomalies |-> anomalies,
                   reports |-> reports, scores |-> scores]
        /\ res' = Ok(generate_recommendations(dev,
                        TypedLog(shape[1], shape[2], shape[3], shape[4]),
                        anomalies, reports, scores))
        /\ calls' = <<>>

OfType(recommendations, type) == SelectSeq(recommendations, LAMBDA r : r.type = type)

(* the sum of a dimension over the reports is below threshold * count *)
MeanBelow(reports, dimension, threshold) ==
    RLt(RSum([i \in 1..Len(reports) |-> reports[i][dimension]]),
        RInt(threshold * Len(reports)))

QualityRule(recommendations, reports, type, priority, dimension, threshold) ==
    /\ Len(OfType(recommendations, type)) > 0
           <=> (Len(reports) > 0 /\ MeanBelow(reports, dimension, threshold))
    /\ \A i \in 1..Len(recommendations) :
           recommendations[i].type = type => recommendations[i].priority = priority

(* C11: for a non-empty list of quality reports the result holds a         *)
(* code_complexity recommendation (high) iff the mean complexity is < 50,  *)
(* a documentation recommendation (medium) iff the mean documentation is   *)
(* < 40, a coding_standards recommendation (low) iff the mean standards is *)
(* < 60; with no reports it holds none of the three.                        *)
C11_QualityRulesOnMeans ==
    op = "generate_recommendations" =>
        /\ res.status = "ok"
        /\ QualityRule(res.value, arg.reports, "code_complexity", "high", "complexity", 50)
        /\ QualityRule(res.value, arg.reports, "documentation", "medium", "documentation", 40)
        /\ QualityRule(res.value, arg.reports, "coding_standards", "low", "standards", 60)

(* two reports, the first low in complexity, whose mean is not: only the   *)
(* standards rule fires                                                     *)
C11_Witness ==
    /\ op = "generate_recommendations"
    /\ Len(arg.reports) = 2
    /\ REq(arg.reports[1].complexity, RInt(0))
    /\ REq(arg.reports[2].complexity, RInt(100))
    /\ Len(OfType(res.value, "code_complexity")) = 0
    /\ Len(OfType(res.value, "documentation")) = 0
    /\ Len(OfType(res.value, "coding_standards")) = 1


(* the activities of a log shape that the rules count (the four known      *)
(* types), its reviews, and the activities supplied                         *)
CountedTotal(shape) == shape[1] + shape[2] + shape[3]

ReviewsOf(shape) == shape[3]

SuppliedTotal(shape) == shape[1] + shape[2] + shape[3] + shape[4]

ReviewEmitted ==
    /\ op = "generate_recommendations"
    /\ Len(OfType(res.value, "code_review_participation")) > 0

(* the first action item of the review-participation recommendation *)
ReviewItem == OfType(res.value, "code_review_participation")[1].actionItems[1]

ReviewItemFor(target) == "Review " \o ToString(target) \o " more pull requests this week"

(* C21: when the review-participation recommendation is emitted, the       *)
(* target in its first action item is 0.20 x total - reviews rounded to    *)
(* the nearest integer.                                                     *)
C21_TargetIsRounded ==
    ReviewEmitted =>
        ReviewItem = ReviewItemFor(RoundHalfEven(20 * CountedTotal(arg.log)
                                                     - 100 * ReviewsOf(arg.log), 100))

(* What the code does guarantee: the target is that value with its         *)
(* fraction cut off.                                                        *)
Target_IsTruncated ==
    ReviewEmitted =>
        ReviewItem = ReviewItemFor((20 * CountedTotal(arg.log) - 100 * ReviewsOf(arg.log))
                                       \div 100)


(* a rule that fires exactly when there are more than 10 of `total`        *)
(* activities and fewer than percent/100 of them are of the rule's kind    *)
ActivityRule(recommendations, type, priority, total, count, percent) ==
    /\ Len(OfType(recommendations, type)) > 0
           <=> (total > 10 /\ RLt(Rat(count, total), Rat(percent, 100)))
    /\ \A i \in 1..Len(recommendations) :
           recommendations[i].type = type => recommendations[i].priority = priority

(* C22: the activity-pattern rules are applied exactly when more than 10   *)
(* activities are supplied, with the ratios taken over that total: a       *)
(* review ratio < 0.15 gives the code-review recommendation (medium), a    *)
(* pull-request ratio < 0.10 the create-more-PRs recommendation (low);     *)
(* with 10 or fewer activities neither is given.                            *)
C22_RulesOverSuppliedTotal ==
    op = "generate_recommendations" =>
        /\ ActivityRule(res.value, "code_review_participation", "medium",
                        SuppliedTotal(arg.log), ReviewsOf(arg.log), 15)
        /\ ActivityRule(res.value, "pull_request_creation", "low",
                        SuppliedTotal(arg.log), arg.log[2], 10)

(* What the code does guarantee: the rules hold over the activities of the *)
(* four known types, which are all of them only when no activity has       *)
(* another type.                                                            *)
ActivityRules_OverCountedTotal ==
    op = "generate_recommendations" =>
        /\ ActivityRule(res.value, "code_review_participation", "medium",
                        CountedTotal(arg.log), ReviewsOf(arg.log), 15)
        /\ ActivityRule(res.value, "pull_request_creation", "low",
                        CountedTotal(arg.log), arg.log[2], 10)


(* C27: whenever the review-participation recommendation is emitted, the   *)
(* target review count stated in its first action item is an integer >= 1. *)
C27_TargetAtLeastOne ==
    ReviewEmitted =>
        \E target \in 1..SuppliedTotal(arg.log) : ReviewItem = ReviewItemFor(target)

(* What the code does guarantee: the target is an integer >= 0, and it is  *)
(* 0 only when fewer than one more review is missing for the 20%.          *)
Target_NonNegative ==
    ReviewEmitted =>
        /\ \E target \in 0..SuppliedTotal(arg.log) : ReviewItem = ReviewItemFor(target)
        /\ ReviewItem = ReviewItemFor(0)
              <=> 20 * CountedTotal(arg.log) - 100 * ReviewsOf(arg.log) < 100


(* the fixed order of the recommendation types *)
TypeOrder ==
    <<"code_review_participation", "pull_request_creation", "productivity_recovery",
      "code_complexity", "documentation", "coding_standards", "collaboration_tone">>

RankOf(type) == CHOOSE k \in 1..Len(TypeOrder) : TypeOrder[k] = type

HighDrops(anomalies) ==
    SelectSeq(anomalies, LAMBDA a : a.type = "productivity_drop" /\ a.severity = "high")

(* C29: generate_recommendations returns at most 7 recommendations, no two *)
(* of the same type, in the relative order code_review_participation,      *)
(* pull_request_creation, productivity_recovery, code_complexity,          *)
(* documentation, coding_standards, collaboration_tone; there is exactly   *)
(* one productivity_recovery recommendation however many high              *)
(* productivity_drop anomalies are supplied, and none when there is no     *)
(* high one.                                                                *)
C29_OnePerTypeInOrder ==
    op = "generate_recommendations" =>
        /\ res.status = "ok"
        /\ Len(res.value) <= 7
        /\ \A i \in 1..Len(res.value) : \E k \in 1..Len(TypeOrder) : res.value[i].type = TypeOrder[k]
        /\ \A i, j \in 1..Len(res.value) :
              i < j => RankOf(res.value[i].type) < RankOf(res.value[j].type)
        /\ Len(OfType(res.value, "productivity_recovery"))
               = IF Len(HighDrops(arg.anomalies)) > 0 THEN 1 ELSE 0

(* all seven at once, with two high drops *)
C29_Witness ==
    /\ op = "generate_recommendations"
    /\ Len(HighDrops(arg.anomalies)) = 2
    /\ Len(res.value) = 7

----------------------------------------------------------------------------
(* CodeQualityAnalyzer.  Code is a string; the regular expressions are     *)
(* matched character by character.  A position p of a string s is 1-based, *)
(* and Len(s) + 1 is the position after its end.                            *)

UpperCase ==
    {"A", "B", "C", "D", "E", "F", "G", "H", "I", "J", "K", "L", "M",
     "N", "O", "P", "Q", "R", "S", "T", "U", "V", "W", "X", "Y", "Z"}

LowerCase ==
    {"a", "b", "c", "d", "e", "f", "g", "h", "i", "j", "k", "l", "m",
     "n", "o", "p", "q", "r", "s", "t", "u", "v", "w", "x", "y", "z"}

Digits == {"0", "1", "2", "3", "4", "5", "6", "7", "8", "9"}

(* \w *)
WordChars == UpperCase \cup LowerCase \cup Digits \cup {"_"}

Least(S) == CHOOSE x \in S : \A y \in S : x <= y

(* \s at position i *)
IsSpaceAt(s, i) == i >= 1 /\ i <= Len(s) /\ CharAt(s, i) \in Whitespace

IsWordAt(s, i) == i >= 1 /\ i <= Len(s) /\ CharAt(s, i) \in WordChars

(* \b at position i: between s[i-1] and s[i] *)
WordBoundary(s, i) == IsWordAt(s, i - 1) # IsWordAt(s, i)

LiteralAt(s, i, literal) ==
    /\ i >= 1
    /\ i + Len(literal) - 1 <= Len(s)
    /\ SubSeq(s, i, i + Len(literal) - 1) = literal

(* where a greedy run of \s (of \w) that starts at i stops *)
SkipSpaces(s, i) ==
    CHOOSE j \in i..(Len(s) + 1) :
        ~ IsSpaceAt(s, j) /\ \A k \in i..(j - 1) : IsSpaceAt(s, k)

SkipWord(s, i) ==
    CHOOSE j \in i..(Len(s) + 1) :
        ~ IsWordAt(s, j) /\ \A k \in i..(j - 1) : IsWordAt(s, k)

(* re.findall: the scan takes the leftmost match, then goes on from its    *)
(* end.  ends[p] is the position after the match that starts at p, or 0    *)
(* if the pattern does not match at p; the result is the list of the       *)
(* <<start, end>> of the matches found.                                     *)
FindAll(ends) ==
    LET n == Len(ends)
        scan[from \in 1..(n + 1)] ==
            LET starts == {p \in from..n : ends[p] > 0}
                first == Least(starts)
            IN IF starts = {} THEN <<>>
               ELSE <<<<first, ends[first]>>>> \o scan[ends[first]]
    IN scan[1]

(* len(re.findall(r'\bkeyword\b', code)) *)
CountKeyword(code, keyword) ==
    Cardinality({p \in 1..Len(code) :
                    /\ LiteralAt(code, p, keyword)
                    /\ WordBoundary(code, p)
                    /\ WordBoundary(code, p + Len(keyword))})

control_flow_patterns ==
    <<"if", "else", "elif", "for", "while", "try", "except", "catch", "switch", "case">>

(* code.split('\n') *)
SplitAt(code, cut) == [k \in 1..(Len(cut) - 1) |-> SubSeq(code, cut[k] + 1, cut[k + 1] - 1)]

Split(code) ==
    LET newlines == SelectSeq([i \in 1..Len(code) |-> i], LAMBDA i : CharAt(code, i) = "\n")
    IN SplitAt(code, <<0>> \o newlines \o <<Len(code) + 1>>)

(* len(line) - len(line.lstrip()) *)
Indent(line) == SkipSpaces(line, 1) - 1

(* line.strip() *)
Strip(line) ==
    IF IsBlank(line) THEN ""
    ELSE SubSeq(line, SkipSpaces(line, 1),
                CHOOSE j \in 1..Len(line) :
                    ~ IsSpaceAt(line, j) /\ \A k \in (j + 1)..Len(line) : IsSpaceAt(line, k))

NonEmptyLines(lines) == SelectSeq(lines, LAMBDA line : ~ IsBlank(line))

Largest(S) == CHOOSE x \in S : \A y \in S : y <= x

MaxIndent(lines) == Largest({0} \cup {Indent(lines[k]) : k \in 1..Len(lines)})

(* ComplexityScore without the clamp to [0, 100]. *)
ComplexityScore_unclamped(complexity_indicators, lines_of_code) ==
    RSub(RInt(100), Rat(complexity_indicators * 200, lines_of_code))

(* max(0, min(100, 100 - (complexity_ratio * 200))) *)
ComplexityScore(complexity_indicators, lines_of_code) ==
    RMax(RInt(0), RMin(RInt(100),
         RSub(RInt(100), Rat(complexity_indicators * 200, lines_of_code))))

analyze_complexity(code, language) ==
    IF IsBlank(code) THEN RInt(100)
    ELSE LET non_empty_lines == NonEmptyLines(Split(code))
             keywords == SumInts([k \in 1..Len(control_flow_patterns) |->
                                     CountKeyword(code, control_flow_patterns[k])])
             max_indent == MaxIndent(non_empty_lines)
             nesting_level == max_indent \div 4
             complexity_indicators == keywords + nesting_level * 2
         IN IF Len(non_empty_lines) = 0 THEN RInt(100)
            ELSE ComplexityScore(complexity_indicators, Len(non_empty_lines))

HasTripleQuote(line) == Contains(Strip(line), "\"\"\"") \/ Contains(Strip(line), "'''")

(* The loop over the lines with its in_docstring flag: the flag is set at  *)
(* line k exactly when an odd number of earlier lines hold a triple quote. *)
DocLinesGiven(lines, quoted) ==
    LET in_docstring(k) == Cardinality({j \in quoted : j < k}) % 2 = 1
    IN Cardinality({k \in 1..Len(lines) :
                       \/ k \in quoted
                       \/ in_docstring(k)
                       \/ StartsWith(Strip(lines[k]), "#")})

PythonDocLines(lines) ==
    DocLinesGiven(lines, {k \in 1..Len(lines) : HasTripleQuote(lines[k])})

GenericDocLines(lines) ==
    Cardinality({k \in 1..Len(lines) :
                    \/ StartsWith(Strip(lines[k]), "//")
                    \/ StartsWith(Strip(lines[k]), "#")
                    \/ StartsWith(Strip(lines[k]), "/*")
                    \/ StartsWith(Strip(lines[k]), "*")})

(* r'^\s*keyword\s+\w+' with re.MULTILINE, tried at position p *)
DefinitionEnd(code, p, keyword) ==
    IF ~ (p = 1 \/ CharAt(code, p - 1) = "\n") THEN 0
    ELSE LET q == SkipSpaces(code, p)
             r == q + Len(keyword)
             t == SkipSpaces(code, r)
             e == SkipWord(code, t)
         IN IF LiteralAt(code, q, keyword) /\ t > r /\ e > t THEN e ELSE 0

function_patterns == <<"def", "function", "class">>

CountDefinitions(code) ==
    SumInts([k \in 1..Len(function_patterns) |->
                Len(FindAll([p \in 1..Len(code) |->
                                DefinitionEnd(code, p, function_patterns[k])]))])

(* min(1.0, doc_lines / expected_docs), or with no definition              *)
(* min(1.0, doc_lines / (len(non_empty_lines) * 0.1)), as exact fractions: *)
(* the floats differ from them by rounding only.                            *)
DocRatio(doc_lines, definitions, lines_of_code) ==
    IF definitions > 0
    THEN RMin(RInt(1), Rat(doc_lines, definitions * 2))
    ELSE RMin(RInt(1), Rat(doc_lines * 10, lines_of_code))

analyze_documentation(code, language) ==
    IF IsBlank(code) THEN RInt(100)
    ELSE LET lines == Split(code)
             non_empty_lines == NonEmptyLines(lines)
             doc_lines == IF language = "python" THEN PythonDocLines(lines)
                          ELSE GenericDocLines(lines)
             definitions == CountDefinitions(code)
         IN IF Len(non_empty_lines) = 0 THEN RInt(100)
            ELSE RMulInt(DocRatio(doc_lines, definitions, Len(non_empty_lines)), 100)

(* r'\bdef\s+([A-Z]\w+)' (capitalised) and r'\bdef\s+\w+', tried at p *)
NamingEnd(code, p, capitalised) ==
    LET r == p + 3
        t == SkipSpaces(code, r)
        e == SkipWord(code, t)
    IN IF /\ LiteralAt(code, p, "def")
          /\ WordBoundary(code, p)
          /\ t > r
          /\ IF capitalised
             THEN t <= Len(code) /\ CharAt(code, t) \in UpperCase /\ e > t + 1
             ELSE e > t
       THEN e ELSE 0

CountNames(code, capitalised) ==
    Len(FindAll([p \in 1..Len(code) |-> NamingEnd(code, p, capitalised)]))

(* max(0, min(100, 100 - (violation_ratio * 100))) *)
StandardsScore(violations, total_checks) ==
    RMax(RInt(0), RMin(RInt(100), RSub(RInt(100), Rat(violations * 100, total_checks))))

(* the score of the line-length and indentation checks together with      *)
(* `names` naming checks, `bad_names` of them violated                      *)
StandardsGiven(code, bad_names, names) ==
    IF IsBlank(code) THEN RInt(100)
    ELSE LET lines == Split(code)
             checked == {k \in 1..Len(lines) : ~ IsBlank(lines[k])}
             too_long == {k \in checked : Len(lines[k]) > 100}
             indent_sizes == {k \in checked : Indent(lines[k]) > 0}
             inconsistent_indent == {k \in indent_sizes : Indent(lines[k]) % 2 # 0}
             violations == Cardinality(too_long) + Cardinality(inconsistent_indent) + bad_names
             total_checks == Cardinality(checked) + Cardinality(indent_sizes) + names
         IN IF total_checks = 0 THEN RInt(100)
            ELSE StandardsScore(violations, total_checks)

analyze_standards(code, language) ==
    StandardsGiven(code,
                   IF language = "python" THEN CountNames(code, TRUE) ELSE 0,
                   IF language = "python" THEN CountNames(code, FALSE) ELSE 0)

(* r'def\s+\w+.*?(?=\ndef\s|\nclass\s|\Z)' with re.DOTALL, tried at p *)
FunctionEnd(code, p) ==
    LET r == p + 3
        t == SkipSpaces(code, r)
        w == SkipWord(code, t)
        ahead(e) == \/ LiteralAt(code, e, "\ndef") /\ IsSpaceAt(code, e + 4)
                    \/ LiteralAt(code, e, "\nclass") /\ IsSpaceAt(code, e + 6)
    IN IF LiteralAt(code, p, "def") /\ t > r /\ w > t
       THEN Least({e \in w..Len(code) : ahead(e)} \cup {Len(code) + 1})
       ELSE 0

LongFunctionIssues(code) ==
    LET functions == FindAll([p \in 1..Len(code) |-> FunctionEnd(code, p)])
    IN Flatten([k \in 1..Len(functions) |->
           LET func == SubSeq(code, functions[k][1], functions[k][2] - 1)
               func_lines == Len(NonEmptyLines(Split(func)))
           IN IF func_lines > 50
              THEN <<"Function exceeds 50 lines (" \o ToString(func_lines)
                         \o " lines) - consider breaking it down">>
              ELSE <<>>])

identify_issues(code, language, complexity_score, documentation_score, standards_score) ==
    (IF RLt(complexity_score, RInt(50))
     THEN <<"High code complexity detected - consider refactoring">> ELSE <<>>)
    \o (IF RLt(documentation_score, RInt(40))
        THEN <<"Insufficient documentation - add docstrings and comments">> ELSE <<>>)
    \o (IF RLt(standards_score, RInt(60))
        THEN <<"Coding standards violations detected - check line length and naming conventions">>
        ELSE <<>>)
    \o (IF language = "python" THEN LongFunctionIssues(code) ELSE <<>>)

analyze_code_quality(commit_hash, code, language) ==
    LET complexity_score == analyze_complexity(code, language)
        documentation_score == analyze_documentation(code, language)
        standards_score == analyze_standards(code, language)
        issues == identify_issues(code, language, complexity_score,
                                  documentation_score, standards_score)
        overall_score == RDivInt(RAdd(RAdd(complexity_score, documentation_score),
                                      standards_score), 3)
    IN CodeQualityReport(commit_hash, complexity_score, documentation_score,
                         standards_score, overall_score, issues)

(* Code samples: every concatenation of at most MaxFragments fragments.    *)
Repeat(s, n) ==
    LET rep[k \in 0..n] == IF k = 0 THEN "" ELSE rep[k - 1] \o s
    IN rep[n]

LongLine == Repeat("x", 101)

LongBody == Repeat("\ny", 51)

Fragments == {"if ", "\n", " ", "def ", "A", "b", "#", "\"\"\"", LongLine, LongBody}

MaxFragments == 3

Concat(fragments) ==
    LET cat[k \in 0..Len(fragments)] == IF k = 0 THEN "" ELSE cat[k - 1] \o fragments[k]
    IN cat[Len(fragments)]

Codes == {Concat(fragments) : fragments \in SeqUpTo(Fragments, MaxFragments)}

Languages == {"python", "javascript"}

CommitHashes == {"abc123"}

AnalyzeCodeQuality ==
    /\ op = "idle"
    /\ UNCHANGED <<engine, model, threads>>
    /\ \E commit_hash \in CommitHashes, code \in Codes, language \in Languages :
        /\ op' = "analyze_code_quality"
        /\ arg' = [commitHash |-> commit_hash, code |-> code, language |-> language]
        /\ res' = Ok(analyze_code_quality(commit_hash, code, language))
        /\ calls' = <<>>

----------------------------------------------------------------------------
(* Properties of the CodeQualityAnalyzer.                                   *)

Percent(x) == RLe(RInt(0), x) /\ RLe(x, RInt(100))

(* C1: for every code string and language tag, analyze_code_quality        *)
(* returns a report whose complexity, documentation, standards and         *)
(* overallScore are each within [0, 100], together with an issues list.    *)
C1_ScoresInRange ==
    op = "analyze_code_quality" =>
        /\ res.status = "ok"
        /\ Percent(res.value.complexity)
        /\ Percent(res.value.documentation)
        /\ Percent(res.value.standards)
        /\ Percent(res.value.overallScore)
        /\ DOMAIN res.value.issues = 1..Len(res.value.issues)

(* a report whose complexity was clamped at 0, with an issue, and whose    *)
(* overall score is strictly inside the range                               *)
C1_Witness ==
    /\ op = "analyze_code_quality"
    /\ res.status = "ok"
    /\ arg.code = "if if if "
    /\ REq(res.value.complexity, RInt(0))
    /\ Len(res.value.issues) >= 1
    /\ RLt(RInt(0), res.value.overallScore)
    /\ RLt(res.value.overallScore, RInt(100))


(* a definition at p whose name starts with an uppercase letter, however   *)
(* long the name is: where the name ends, or 0                              *)
UppercaseInitialEnd(code, p) ==
    LET t == SkipSpaces(code, p + 3)
    IN IF /\ NamingEnd(code, p, FALSE) > 0
          /\ CharAt(code, t) \in UpperCase
       THEN NamingEnd(code, p, FALSE) ELSE 0

UppercaseInitialNames(code) ==
    Len(FindAll([p \in 1..Len(code) |-> UppercaseInitialEnd(code, p)]))

InStandardsPass ==
    /\ op = "analyze_code_quality"
    /\ arg.language = "python"
    /\ ~ IsBlank(arg.code)

(* C25: in the standards pass for python every function definition is one *)
(* check and every function whose name starts with an uppercase letter,    *)
(* one-character names included, is one violation: the naming violations   *)
(* are the definitions with an uppercase-initial name, and never more than *)
(* the naming checks.                                                       *)
C25_UppercaseInitialIsViolation ==
    InStandardsPass =>
        /\ UppercaseInitialNames(arg.code) <= CountNames(arg.code, FALSE)
        /\ res.value.standards = StandardsGiven(arg.code, UppercaseInitialNames(arg.code),
                                                CountNames(arg.code, FALSE))

(* What the code does guarantee: an uppercase-initial name counts when it  *)
(* has two characters or more.                                              *)
Naming_TwoCharactersOrMore ==
    InStandardsPass =>
        LET long == Len(FindAll([p \in 1..Len(arg.code) |->
                            IF /\ UppercaseInitialEnd(arg.code, p) > 0
                               /\ UppercaseInitialEnd(arg.code, p)
                                      > SkipSpaces(arg.code, p + 3) + 1
                            THEN UppercaseInitialEnd(arg.code, p) ELSE 0]))
        IN /\ long <= CountNames(arg.code, FALSE)
           /\ res.value.standards = StandardsGiven(arg.code, long, CountNames(arg.code, FALSE))

----------------------------------------------------------------------------
(* AIAnalysisEngine.analyze_developer_comprehensive.  A code sample is the *)
(* tuple <<commit_hash, code, language>>; a pull request is its number and *)
(* comments, with the classifier's outcome for each comment.  `calls` is   *)
(* the list of the engine operations the run performs, in order.           *)

Call(name, index) == [name |-> name, index |-> index]

(* PooledScores that keeps the scores of the last pull request only. *)
PooledScores_lastOnly(pr_sentiments) ==
    IF Len(pr_sentiments) = 0 THEN <<>> ELSE pr_sentiments[Len(pr_sentiments)][2]

(* all_sentiment_scores, extended by each pull request's scores in turn *)
PooledScores(pr_sentiments) ==
    Flatten([k \in 1..Len(pr_sentiments) |-> pr_sentiments[k][2]])

analyze_developer_comprehensive(developer_id, activities, strategy, code_samples, pr_comments) ==
    LET anomalies == detect_anomalies(developer_id, activities, strategy)
        quality_reports ==
            [i \in 1..Len(code_samples) |->
                analyze_code_quality(code_samples[i][1], code_samples[i][2], code_samples[i][3])]
        sentiments ==
            [k \in 1..Len(pr_comments) |->
                analyze_comments(pr_comments[k].comments, pr_comments[k].oracle)]
        pr_sentiments ==
            [k \in 1..Len(pr_comments) |-> <<pr_comments[k].number, sentiments[k].value>>]
        all_sentiment_scores == PooledScores(pr_sentiments)
    IN IF anomalies.status = "raised" THEN Raised
       ELSE IF \E k \in 1..Len(pr_comments) : sentiments[k].status = "raised" THEN Raised
       ELSE Ok([developerId |-> developer_id,
                anomalies |-> anomalies.value,
                qualityReports |-> quality_reports,
                sentimentScores |-> all_sentiment_scores,
                recommendations |->
                    generate_recommendations(developer_id, activities, anomalies.value,
                                             quality_reports, all_sentiment_scores),
                alerts |-> generate_combined_alerts(quality_reports, pr_sentiments)])

(* The operations the run calls, in the order of the code; an exception    *)
(* ends the run at the call that raised it.                                 *)
ComprehensiveCalls(developer_id, activities, strategy, code_samples, pr_comments) ==
    LET anomalies == detect_anomalies(developer_id, activities, strategy)
        raising == {k \in 1..Len(pr_comments) :
                       analyze_comments(pr_comments[k].comments,
                                        pr_comments[k].oracle).status = "raised"}
        last == IF raising = {} THEN Len(pr_comments) ELSE Least(raising)
    IN <<Call("detect_anomalies", 0)>>
       \o (IF anomalies.status = "raised" THEN <<>>
           ELSE [i \in 1..Len(code_samples) |-> Call("analyze_code_quality", i)]
                \o [k \in 1..last |-> Call("analyze_pr_comments", k)]
                \o (IF raising = {}
                    THEN <<Call("generate_recommendations", 0),
                           Call("generate_combined_alerts", 0)>>
                    ELSE <<>>))

(* Arguments of the comprehensive analysis. *)
MaxSamples == 2
MaxPullRequests == 2

CodeSamples ==
    {<<"abc123", "if if if ", "python">>,
     <<"def456", "def b\n  \"\"\"doc\"\"\"\n", "python">>}

Negative == [kind |-> "answer", label |-> "NEGATIVE", score |-> Rat(9, 10)]

Positive == [kind |-> "answer", label |-> "POSITIVE", score |-> Rat(9, 10)]

PullRequest(number, comments, oracle) ==
    [number |-> number, comments |-> comments, oracle |-> oracle]

PullRequests ==
    {PullRequest(7, <<>>, <<>>),
     PullRequest(7, <<"LGTM">>, <<Negative>>),
     PullRequest(8, <<"LGTM", "LGTM">>, <<Positive, Positive>>),
     PullRequest(8, <<"LGTM", "">>, <<Negative, NotAsked>>),
     PullRequest(9, <<"LGTM", "LGTM">>, <<Negative, Failure>>),
     PullRequest(9, <<" \n", "LGTM">>, <<NotAsked, Positive>>),
     PullRequest(7, <<"LGTM", "LGTM", "LGTM">>, <<Negative, Positive, Positive>>)}

ComprehensiveLogs ==
    {p \in LogParameters :
        /\ p.perDay = 4 /\ p.hour = 13 /\ p.order = "reversed"
        /\ p.first \in {"full", "nullLines"}
        /\ \A k \in 1..Len(p.tail) : p.tail[k] = IF k = 1 THEN 0 ELSE 1}

AnalyzeDeveloperComprehensive ==
    /\ op = "idle"
    /\ UNCHANGED <<engine, model, threads>>
    /\ \E dev \in DeveloperIds, p \in ComprehensiveLogs, strategy \in {"first", "raise"},
          samples \in SeqUpTo(CodeSamples, MaxSamples),
          prs \in SeqUpTo(PullRequests, MaxPullRequests) :
        /\ op' = "analyze_developer_comprehensive"
        /\ arg' = [developerId |-> dev, log |-> p, forest |-> strategy,
                   samples |-> samples, prs |-> prs]
        /\ res' = analyze_developer_comprehensive(dev, LogOf(p), strategy, samples, prs)
        /\ calls' = ComprehensiveCalls(dev, LogOf(p), strategy, samples, prs)

----------------------------------------------------------------------------
(* Properties of the comprehensive analysis.                                *)

CallsNamed(name) == SelectSeq(calls, LAMBDA c : c.name = name)

PositionsOf(names) == {i \in 1..Len(calls) : calls[i].name \in names}

(* where the scores of pull request k start in the pooled list *)
Offset(prs, k) == SumInts([j \in 1..(k - 1) |-> Len(prs[j].comments)])

(* C12: the comprehensive analysis runs anomaly detection once, quality    *)
(* analysis once per code sample and comment scoring once per pull         *)
(* request, all before recommendation and alert generation; it returns one *)
(* report per code sample in input order, the per-comment scores of the    *)
(* pull requests concatenated in order, the recommendations computed from  *)
(* exactly those anomalies, reports and pooled scores, and the developerId *)
(* it was given.                                                            *)
C12_ComprehensiveFlow ==
    (op = "analyze_developer_comprehensive" /\ res.status = "ok") =>
        /\ Len(CallsNamed("detect_anomalies")) = 1
        /\ CallsNamed("analyze_code_quality")
               = [i \in 1..Len(arg.samples) |-> Call("analyze_code_quality", i)]
        /\ CallsNamed("analyze_pr_comments")
               = [k \in 1..Len(arg.prs) |-> Call("analyze_pr_comments", k)]
        /\ \A i \in PositionsOf({"detect_anomalies", "analyze_code_quality", "analyze_pr_comments"}),
              j \in PositionsOf({"generate_recommendations", "generate_combined_alerts"}) : i < j
        /\ Len(res.value.qualityReports) = Len(arg.samples)
        /\ \A i \in 1..Len(arg.samples) :
              res.value.qualityReports[i]
                  = analyze_code_quality(arg.samples[i][1], arg.samples[i][2], arg.samples[i][3])
        /\ Len(res.value.sentimentScores) = Offset(arg.prs, Len(arg.prs) + 1)
        /\ \A k \in 1..Len(arg.prs) : \A j \in 1..Len(arg.prs[k].comments) :
              res.value.sentimentScores[Offset(arg.prs, k) + j]
                  = analyze_sentiment(arg.prs[k].comments[j], arg.prs[k].oracle[j]).value
        /\ res.value.recommendations
               = generate_recommendations(arg.developerId, LogOf(arg.log), res.value.anomalies,
                                          res.value.qualityReports, res.value.sentimentScores)
        /\ res.value.developerId = arg.developerId

(* two code samples and two pull requests with comments, an anomaly found *)
C12_Witness ==
    /\ op = "analyze_developer_comprehensive"
    /\ res.status = "ok"
    /\ Len(arg.samples) = 2
    /\ arg.samples[1] # arg.samples[2]
    /\ Len(arg.prs) = 2
    /\ Len(arg.prs[1].comments) = 1
    /\ Len(arg.prs[2].comments) = 2
    /\ Len(res.value.sentimentScores) = 3
    /\ Len(res.value.anomalies) > 0
    /\ Len(res.value.recommendations) > 0
    /\ Len(calls) = 7


(* the fraction of the comments of a pull request that are scored negative *)
OwnNegativeRatio(pr) == NegativeRatio(analyze_comments(pr.comments, pr.oracle).value)

ToneRecommended ==
    /\ op = "analyze_developer_comprehensive"
    /\ res.status = "ok"
    /\ Len(OfType(res.value.recommendations, "collaboration_tone")) > 0

(* C28: whenever the comprehensive result holds a collaboration_tone       *)
(* recommendation (the negative-label ratio pooled over all pull request   *)
(* comments is > 0.3), its alerts hold a negative_sentiment alert for some *)
(* pull request, one whose own negative ratio is > 0.25.                    *)
C28_ToneImpliesSentimentAlert ==
    ToneRecommended =>
        /\ RLt(Rat(3, 10), NegativeRatio(res.value.sentimentScores))
        /\ \E k \in 1..Len(arg.prs) :
              /\ Len(arg.prs[k].comments) > 0
              /\ RLt(Rat(1, 4), OwnNegativeRatio(arg.prs[k]))
              /\ \E n \in 1..Len(res.value.alerts) :
                    /\ res.value.alerts[n].type = "negative_sentiment"
                    /\ res.value.alerts[n].relatedEntity = ToString(arg.prs[k].number)

(* a pull request without negative comments and one with: the pooled ratio *)
(* is 1/3 and only the second has an alert                                  *)
C28_Witness ==
    /\ ToneRecommended
    /\ Len(arg.prs) = 2
    /\ Len(arg.prs[1].comments) = 2
    /\ OwnNegativeRatio(arg.prs[1]) = Rat(0, 2)
    /\ NegativeRatio(res.value.sentimentScores) = Rat(1, 3)
    /\ Len(RatioAlertsIn(res.value.alerts)) = 1

----------------------------------------------------------------------------
(* Calls that share the detector.  The engine holds one AnomalyDetector    *)
(* and the detector one IsolationForest; fit_predict fits that forest on   *)
(* the rows of the call and then scores the same rows with it.  The two    *)
(* steps are separate writes and reads of the shared forest, so a call of  *)
(* another request thread can run between them.  What the forest answers   *)
(* is kept as a term: the batch it was fitted on and the batch it scores.  *)

Threads == {1, 2}

(* The batches of the calls: logs long enough to reach the forest. *)
Batches ==
    {p \in LogParameters :
        /\ p.perDay = 4 /\ p.hour = 13 /\ p.order = "chronological" /\ p.first = "full"
        /\ \A k \in 1..Len(p.tail) : p.tail[k] \in (IF k <= 2 THEN {0, 1} ELSE {0})}

IdleThread == [pc |-> "idle", batch |-> <<>>, before |-> <<>>, result |-> <<>>]

(* Fitted that keeps a forest that has been fitted before. *)
Fitted_once(forest, batch) == IF forest = <<>> THEN <<batch>> ELSE forest

(* IsolationForest.fit: the forest is rebuilt from the rows given *)
Fitted(forest, batch) == <<batch>>

(* IsolationForest.predict: the labels of the rows of `batch` by `forest` *)
Predicted(forest, batch) == [fittedOn |-> forest[1], scored |-> batch]

(* the anomalies of a call: the drops, then the patterns the labels give *)
DetectResult(batch, labels) ==
    [drops |-> detect_productivity_drops("dev-1", LogOf(batch)), patterns |-> labels]

(* what the call returns when no other call touches the forest *)
RunAlone(batch) == DetectResult(batch, Predicted(Fitted(<<>>, batch), batch))

(* detect_anomalies is entered: a request thread calls the shared engine *)
Enter(t) ==
    /\ threads[t].pc = "idle"
    /\ \E b \in Batches :
        threads' = [threads EXCEPT ![t] = [pc |-> "entered", batch |-> <<b>>,
                                           before |-> model, result |-> <<>>]]
    /\ UNCHANGED <<op, arg, res, calls, engine, model>>

(* ... entered only when no other call is running: sequential use *)
EnterAlone(t) ==
    /\ \A u \in Threads : threads[u].pc = "idle"
    /\ \E b \in Batches :
        threads' = [threads EXCEPT ![t] = [pc |-> "entered", batch |-> <<b>>,
                                           before |-> model, result |-> <<>>]]
    /\ UNCHANGED <<op, arg, res, calls, engine, model>>

(* the first half of fit_predict *)
Fit(t) ==
    /\ threads[t].pc = "entered"
    /\ model' = Fitted(model, threads[t].batch[1])
    /\ threads' = [threads EXCEPT ![t].pc = "fitted"]
    /\ UNCHANGED <<op, arg, res, calls, engine>>

(* the second half, and the rest of the call *)
Predict(t) ==
    /\ threads[t].pc = "fitted"
    /\ threads' = [threads EXCEPT
                      ![t].pc = "done",
                      ![t].result = <<DetectResult(threads[t].batch[1],
                                                   Predicted(model, threads[t].batch[1]))>>]
    /\ UNCHANGED <<op, arg, res, calls, engine, model>>

(* the call returns; the forest stays as it is *)
Leave(t) ==
    /\ threads[t].pc = "done"
    /\ threads' = [threads EXCEPT ![t] = IdleThread]
    /\ UNCHANGED <<op, arg, res, calls, engine, model>>

----------------------------------------------------------------------------
(* Properties of calls that share the detector.                             *)

Done(t) == threads[t].pc = "done"

(* C23: with one detector shared by two detect_anomalies calls that run    *)
(* concurrently, each call's unusual_pattern anomalies are those of a      *)
(* forest fitted on that call's own batch, i.e. the call returns what it   *)
(* returns when it runs alone.                                              *)
C23_ConcurrentCallsIsolated ==
    \A t \in Threads : Done(t) => threads[t].result[1] = RunAlone(threads[t].batch[1])

(* What the code does guarantee: the drops of a call are its own, and its *)
(* rows are scored by the forest as some call fitted it, ...               *)
Concurrent_ScoredBySomeFit ==
    \A t \in Threads :
        Done(t) =>
            /\ threads[t].result[1].drops = RunAlone(threads[t].batch[1]).drops
            /\ threads[t].result[1].patterns.scored = threads[t].batch[1]
            /\ threads[t].result[1].patterns.fittedOn \in Batches

(* ... and nothing but the fit of a call writes the forest.                *)
Concurrent_OnlyFitWrites ==
    [][model' # model =>
          \E t \in Threads : threads[t].pc = "entered" /\ threads'[t].pc = "fitted"]_vars

(* C24: in sequential use the anomalies a detect_anomalies call returns    *)
(* depend only on its arguments: whatever calls were made before on the    *)
(* same detector, the result is the one of the call on a fresh detector.   *)
C24_NoCrossCallState ==
    \A t \in Threads : Done(t) => threads[t].result[1] = RunAlone(threads[t].batch[1])
                                  /\ threads[t].result[1].patterns.fittedOn = threads[t].batch[1]

(* a call on a detector whose forest an earlier call fitted on another batch *)
C24_Witness ==
    \E t \in Threads :
        /\ Done(t)
        /\ threads[t].before # <<>>
        /\ threads[t].before # threads[t].batch
        /\ Len(threads[t].result[1].drops) > 0

----------------------------------------------------------------------------
(* The HTTP app.  `engine` is the module-level engine of app.py, built     *)
(* once when the module is loaded.  A request is a JSON object `data`      *)
(* (a record; a key may be missing), or a body the handler cannot read as  *)
(* one.  The response is left in `res`, the engine calls in `calls`.       *)

AppInit ==
    /\ op = "idle"
    /\ arg = <<>>
    /\ res = Ok(<<>>)
    /\ calls = <<>>
    /\ engine \in {"available", "none"}
    /\ model = <<>>
    /\ threads = [t \in Threads |-> IdleThread]

(* json null / Python None *)
None == "None"

HttpResponse(code, body) == [status |-> "http", code |-> code, body |-> body]

(* `if not engine` that never finds the engine missing. *)
Available_always(e) == TRUE

Available(e) == e # "none"

(* data.get(key, default) *)
Field(data, key, default) == IF key \in DOMAIN data THEN data[key] ELSE default

Json(data, oracle) == [kind |-> "json", data |-> data, oracle |-> oracle]

(* a body that is not a JSON object, or that lacks a key the handler       *)
(* indexes: the handler fails before it reaches the engine                  *)
Malformed(oracle) == [kind |-> "malformed", data |-> <<>>, oracle |-> oracle]

(* jsonify({key: value}) of an engine result *)
Wrapped(key, result) ==
    IF result.status = "raised" THEN Raised ELSE Ok([k \in {key} |-> result.value])

ServiceUnavailable == HttpResponse(503, [error |-> "AI Analysis Engine not available"])

(* AIAnalysisEngine.train_models *)
train_models(training_data) ==
    Ok([status |-> "success",
        message |-> "Model training completed",
        metrics |-> [samples_processed |-> Len(Field(training_data, "samples", <<>>)),
                     accuracy |-> Rat(85, 100)]])

(* EngineAfter that gives the engine up when its operation raised. *)
EngineAfter_lostOnFailure(e, result) == IF result.status = "raised" THEN "none" ELSE e

(* the module-level engine after a request: no handler rebinds it *)
EngineAfter(e, result) == e

(* One POST handler: the engine guard, reading the body, the one engine    *)
(* call, and the response.  `result` is what the engine call returns for   *)
(* the request, already wrapped for jsonify.  An unhandled exception is    *)
(* answered by the framework with an error status.                          *)
Handle(path, operation, request, result) ==
    /\ op' = path
    /\ arg' = request
    /\ engine' = EngineAfter(engine, result)
    /\ UNCHANGED <<model, threads>>
    /\ IF ~ Available(engine)
       THEN res' = ServiceUnavailable /\ calls' = <<>>
       ELSE IF request.kind = "malformed"
       THEN /\ \E code \in {400, 415, 500} : res' = HttpResponse(code, [error |-> "bad request"])
            /\ calls' = <<>>
       ELSE /\ calls' = <<Call(operation, 0)>>
            /\ res' = IF result.status = "raised"
                      THEN HttpResponse(500, [error |-> "Internal Server Error"])
                      ELSE HttpResponse(200, result.value)

Health ==
    /\ op = "idle"
    /\ op' = "/health"
    /\ arg' = <<>>
    /\ res' = HttpResponse(200, [status |-> IF Available(engine) THEN "ok" ELSE "degraded",
                                 service |-> "ai-analysis"])
    /\ calls' = <<>>
    /\ UNCHANGED <<engine, model, threads>>

SentimentResult(request) ==
    analyze_sentiment(Field(request.data, "text", ""), request.oracle)

PostSentiment ==
    /\ op = "idle"
    /\ \E request \in {Malformed(NotAsked), Json(<<>>, NotAsked), Json([text |-> "LGTM"], Negative),
                      Json([text |-> "LGTM"], Failure)} :
        Handle("/api/sentiment/analyze", "analyze_sentiment", request,
               IF request.kind = "json" THEN SentimentResult(request) ELSE Raised)

PrCommentsResult(request) ==
    Wrapped("sentiments", analyze_comments(Field(request.data, "comments", <<>>), request.oracle))

PostPrComments ==
    /\ op = "idle"
    /\ \E request \in {Malformed(<<>>), Json(<<>>, <<>>),
                      Json([comments |-> <<"LGTM", "">>], <<Negative, NotAsked>>),
                      Json([comments |-> <<"LGTM", "LGTM">>], <<Positive, Failure>>)} :
        Handle("/api/sentiment/pr-comments", "analyze_pr_comments", request,
               IF request.kind = "json" THEN PrCommentsResult(request) ELSE Raised)

(* the activities of a request are given by the parameters of a log *)
ActivitiesOf(data) == IF "log" \in DOMAIN data THEN LogOf(data.log) ELSE <<>>

AnomaliesResult(request) ==
    Wrapped("anomalies", detect_anomalies(Field(request.data, "developerId", None),
                                          ActivitiesOf(request.data), request.oracle))

PostAnomalies ==
    /\ op = "idle"
    /\ \E request \in {Malformed("none"), Json(<<>>, "none")}
                      \cup {Json([developerId |-> "dev-1", log |-> p], "first") :
                               p \in ComprehensiveLogs} :
        Handle("/api/anomalies/detect", "detect_anomalies", request,
               IF request.kind = "json" THEN AnomaliesResult(request) ELSE Raised)

CodeQualityResult(request) ==
    Ok(analyze_code_quality(Field(request.data, "commitHash", None),
                            Field(request.data, "code", ""),
                            Field(request.data, "language", "python")))

PostCodeQuality ==
    /\ op = "idle"
    /\ \E request \in {Malformed(<<>>), Json(<<>>, <<>>),
                      Json([commitHash |-> "abc123", code |-> "if if if "], <<>>),
                      Json([commitHash |-> "abc123", code |-> "# a\n", language |-> "javascript"],
                           <<>>)} :
        Handle("/api/code-quality/analyze", "analyze_code_quality", request,
               IF request.kind = "json" THEN CodeQualityResult(request) ELSE Raised)

RecommendationsResult(request) ==
    Wrapped("recommendations",
            Ok(generate_recommendations(Field(request.data, "developerId", None),
                                        ActivitiesOf(request.data),
                                        Field(request.data, "anomalies", <<>>),
                                        Field(request.data, "qualityReports", <<>>),
                                        Field(request.data, "sentimentScores", <<>>))))

PostRecommendations ==
    /\ op = "idle"
    /\ \E request \in {Malformed(<<>>), Json(<<>>, <<>>)}
                      \cup {Json([developerId |-> "dev-1", qualityReports |-> <<r>>], <<>>) :
                               r \in ReportSamples} :
        Handle("/api/recommendations/generate", "generate_recommendations", request,
               IF request.kind = "json" THEN RecommendationsResult(request) ELSE Raised)

(* a missing qualityReport is None, which the engine cannot index *)
QualityAlertsResult(request) ==
    IF "qualityReport" \in DOMAIN request.data
    THEN Wrapped("alerts", Ok(generate_quality_alerts(request.data.qualityReport)))
    ELSE Raised

PostQualityAlerts ==
    /\ op = "idle"
    /\ \E request \in {Malformed(<<>>), Json(<<>>, <<>>)}
                      \cup {Json([qualityReport |-> r], <<>>) : r \in ReportSamples} :
        Handle("/api/alerts/quality", "generate_quality_alerts", request,
               IF request.kind = "json" THEN QualityAlertsResult(request) ELSE Raised)

SentimentAlertsResult(request) ==
    Wrapped("alerts", Ok(generate_sentiment_alerts(Field(request.data, "prNumber", None),
                                                   Field(request.data, "sentimentScores", <<>>))))

PostSentimentAlerts ==
    /\ op = "idle"
    /\ \E request \in {Malformed(<<>>), Json(<<>>, <<>>)}
                      \cup {Json([prNumber |-> 7, sentimentScores |-> scores], <<>>) :
                               scores \in SeqUpTo(RecScoreSamples, 2)} :
        Handle("/api/alerts/sentiment", "generate_sentiment_alerts", request,
               IF request.kind = "json" THEN SentimentAlertsResult(request) ELSE Raised)

ComprehensiveResult(request) ==
    analyze_developer_comprehensive(Field(request.data, "developerId", None),
                                    ActivitiesOf(request.data), request.oracle,
                                    Field(request.data, "codeSamples", <<>>),
                                    Field(request.data, "prComments", <<>>))

PostComprehensive ==
    /\ op = "idle"
    /\ \E request \in {Malformed("none"), Json(<<>>, "none")}
                      \cup {Json([developerId |-> "dev-1", log |-> p, codeSamples |-> <<s>>,
                                  prComments |-> <<pr>>], "first") :
                               p \in ComprehensiveLogs, s \in CodeSamples, pr \in PullRequests} :
        Handle("/api/analyze/comprehensive", "analyze_developer_comprehensive", request,
               IF request.kind = "json" THEN ComprehensiveResult(request) ELSE Raised)

TrainResult(request) == train_models(Field(request.data, "trainingData", <<>>))

PostTrain ==
    /\ op = "idle"
    /\ \E request \in {Malformed(<<>>), Json(<<>>, <<>>),
                      Json([trainingData |-> [samples |-> <<"s1", "s2">>]], <<>>),
                      Json([trainingData |-> [epochs |-> 3]], <<>>)} :
        Handle("/api/models/train", "train_models", request,
               IF request.kind = "json" THEN TrainResult(request) ELSE Raised)

----------------------------------------------------------------------------
(* Properties of the HTTP app.                                              *)

PostPaths ==
    {"/api/sentiment/analyze", "/api/sentiment/pr-comments", "/api/anomalies/detect",
     "/api/code-quality/analyze", "/api/recommendations/generate", "/api/alerts/quality",
     "/api/alerts/sentiment", "/api/analyze/comprehensive", "/api/models/train"}

(* the engine operation behind each POST path, and what it returns for the *)
(* request in `arg`                                                         *)
EngineOperation(path) ==
    CASE path = "/api/sentiment/analyze" -> "analyze_sentiment"
      [] path = "/api/sentiment/pr-comments" -> "analyze_pr_comments"
      [] path = "/api/anomalies/detect" -> "detect_anomalies"
      [] path = "/api/code-quality/analyze" -> "analyze_code_quality"
      [] path = "/api/recommendations/generate" -> "generate_recommendations"
      [] path = "/api/alerts/quality" -> "generate_quality_alerts"
      [] path = "/api/alerts/sentiment" -> "generate_sentiment_alerts"
      [] path = "/api/analyze/comprehensive" -> "analyze_developer_comprehensive"
      [] path = "/api/models/train" -> "train_models"

EngineResult(path, request) ==
    CASE path = "/api/sentiment/analyze" -> SentimentResult(request)
      [] path = "/api/sentiment/pr-comments" -> PrCommentsResult(request)
      [] path = "/api/anomalies/detect" -> AnomaliesResult(request)
      [] path = "/api/code-quality/analyze" -> CodeQualityResult(request)
      [] path = "/api/recommendations/generate" -> RecommendationsResult(request)
      [] path = "/api/alerts/quality" -> QualityAlertsResult(request)
      [] path = "/api/alerts/sentiment" -> SentimentAlertsResult(request)
      [] path = "/api/analyze/comprehensive" -> ComprehensiveResult(request)
      [] path = "/api/models/train" -> TrainResult(request)

(* C13: when the engine failed to initialise, every POST endpoint answers  *)
(* 503 with an error body and calls no engine operation, and /health       *)
(* answers 200 with status "degraded"; when the engine initialised,        *)
(* /health reports "ok" and every POST endpoint answers a readable request *)
(* with the result of exactly one call to its engine operation.            *)
C13_EngineGuard ==
    /\ (op \in PostPaths /\ engine = "none") =>
          /\ res.code = 503
          /\ DOMAIN res.body = {"error"}
          /\ calls = <<>>
    /\ (op = "/health") =>
          /\ res.code = 200
          /\ calls = <<>>
          /\ res.body.status = IF engine = "none" THEN "degraded" ELSE "ok"
    /\ (op \in PostPaths /\ engine = "available" /\ arg.kind = "json") =>
          /\ calls = <<Call(EngineOperation(op), 0)>>
          /\ LET result == EngineResult(op, arg)
             IN IF result.status = "raised"
                THEN res.code = 500
                ELSE res = HttpResponse(200, result.value)

(* a refused request when the engine is missing *)
C13_Witness ==
    /\ engine = "none"
    /\ op = "/api/anomalies/detect"
    /\ arg.kind = "json"
    /\ "log" \in DOMAIN arg.data
    /\ res.code = 503


(* C30: the availability of the app's engine is fixed at start-up: no      *)
(* request changes it, failing requests and calls of the training endpoint *)
(* included, so /health answers after any sequence of requests what it     *)
(* answers before the first: a degraded app never becomes ok, an ok app    *)
(* never degraded.                                                          *)
C30_AvailabilityFixed ==
    [][/\ engine' = engine
       /\ op' = "/health" =>
             res'.body.status = IF engine = "none" THEN "degraded" ELSE "ok"]_vars

(* a request that failed inside the engine operation, the engine still     *)
(* there                                                                    *)
C30_Witness ==
    /\ op \in PostPaths
    /\ arg.kind = "json"
    /\ calls # <<>>
    /\ res.code = 500
    /\ engine = "available"

----------------------------------------------------------------------------
Init ==
    /\ op = "idle"
    /\ arg = <<>>
    /\ res = Ok(<<>>)
    /\ calls = <<>>
    /\ engine = "available"
    /\ model = <<>>
    /\ threads = [t \in Threads |-> IdleThread]

(* The synchronous call returns to its caller; the engine keeps nothing of it. *)
Return ==
    /\ op # "idle"
    /\ op' = "idle"
    /\ arg' = <<>>
    /\ res' = Ok(<<>>)
    /\ calls' = <<>>
    /\ UNCHANGED <<engine, model, threads>>

NextSentiment == AnalyzeSentiment \/ AnalyzeComments \/ GetAverageSentiment \/ Return

SpecSentiment == Init /\ [][NextSentiment]_vars

NextAlerts == GenerateQualityAlerts \/ GenerateSentimentAlerts \/ Return

SpecAlerts == Init /\ [][NextAlerts]_vars

NextCombined == GenerateCombinedAlerts \/ Return

SpecCombined == Init /\ [][NextCombined]_vars

NextRecommendations == GenerateRecommendations \/ Return

SpecRecommendations == Init /\ [][NextRecommendations]_vars

NextAnomalies == DetectAnomalies \/ Return

SpecAnomalies == Init /\ [][NextAnomalies]_vars

NextAllRecommendations == GenerateAllRecommendations \/ Return

SpecAllRecommendations == Init /\ [][NextAllRecommendations]_vars

NextQualityRecommendations == GenerateQualityRecommendations \/ Return

SpecQualityRecommendations == Init /\ [][NextQualityRecommendations]_vars

NextComprehensive == AnalyzeDeveloperComprehensive \/ Return

SpecComprehensive == Init /\ [][NextComprehensive]_vars

NextQuality == AnalyzeCodeQuality \/ Return

SpecQuality == Init /\ [][NextQuality]_vars

NextScenario == DetectScenario \/ Return

SpecScenario == Init /\ [][NextScenario]_vars

NextConcurrent == \E t \in Threads : Enter(t) \/ Fit(t) \/ Predict(t) \/ Leave(t)

SpecConcurrent == Init /\ [][NextConcurrent]_vars

NextSequential == \E t \in Threads : EnterAlone(t) \/ Fit(t) \/ Predict(t) \/ Leave(t)

SpecSequential == Init /\ [][NextSequential]_vars

NextApp ==
    \/ Health \/ PostSentiment \/ PostPrComments \/ PostAnomalies \/ PostCodeQuality
    \/ PostRecommendations \/ PostQualityAlerts \/ PostSentimentAlerts
    \/ PostComprehensive \/ PostTrain \/ Return

SpecApp == AppInit /\ [][NextApp]_vars

Next == NextSentiment \/ NextAlerts \/ NextRecommendations \/ NextAnomalies \/ NextScenario
        \/ NextQuality \/ NextQualityRecommendations \/ NextComprehensive \/ NextApp
        \/ NextCombined \/ NextConcurrent \/ NextSequential
        \/ NextAllRecommendations

Spec == Init /\ [][Next]_vars

====
